---------------------------- MODULE Spec2Model ----------------------------
(***************************************************************************)
(* Model of the deterministic core of the repository:                      *)
(*   - DeterministicContentCleaner (src/src/cleaners/deterministic_cleaner.py)*)
(*     with the predicates of CcFooterCleaner and DisclaimerCleaner,       *)
(*   - SchemeClassifier            (src/src/dspy_modules/scheme_classifier.py)*)
(*   - ConfigGenerator             (src/src/utils/config_generator.py).    *)
(*                                                                         *)
(* Texts are sequences of tokens.  Every token stands for one fixed        *)
(* string, and a text stands for the concatenation of the strings of its   *)
(* tokens (no separator).  The regular expressions of the code are         *)
(* modelled by what they match on these strings:                           *)
(*                                                                         *)
(*   NL    "\n"                                                            *)
(*   W     "com"                       a word no pattern matches           *)
(*   K     "(5%)"                      PROTECTED_KEYWORDS (percentage)     *)
(*   S1    "This e-mail message may contain confidential"                  *)
(*                                     disclaimer_markers[0]               *)
(*   S4    "This message contains confidential information"                *)
(*                                     disclaimer_markers[3]               *)
(*   E1    "confirmation of any transaction or contract"  end_markers[0]   *)
(*   E3    "strictly prohibited"                          end_markers[2]   *)
(*   DOT   "."                                                             *)
(*   CC    "Cc:"                                                           *)
(*   FR    "From:"                                                         *)
(*   EM    "a@x.com"                   an email address                    *)
(*   ANG   "<n>"                                                           *)
(*   COMMA ","                                                             *)
(*   H     "-- Forwarded message --"   HEADER_PATTERNS[1]                  *)
(*   F     "[Quoted text hidden]"      FOOTER_PATTERNS[1]                  *)
(*   D     "accepts no liability"      BOILERPLATE_PATTERNS[5]             *)
(*   V     "viruses"                   a DISCLAIMER_KEYWORDS entry         *)
(*   PIPE  "|a|b|"                                                         *)
(*   TAB   "x\ty"                                                          *)
(*   LONG  200 times "z"                                                   *)
(*   ZWSP  U+200B                      zero-width space                    *)
(***************************************************************************)
EXTENDS Integers, Sequences, FiniteSets, TLC

VARIABLES
    \* ---- one DeterministicContentCleaner instance and one call of clean
    pc,                  \* position inside clean
    input,               \* the argument of clean
    text,                \* the local variable `text`
    iteration,           \* loop counter of _preprocess_disclaimer_removal
    paragraphs,          \* result of _segment_paragraphs
    protected_paragraphs,
    cleanable_paragraphs,
    cleanable_text,
    output,              \* the value clean returns
    audit_summary,       \* self.audit_summary
    cc_stats,            \* self.cc_footer_cleaner.stats
    disclaimer_stats,    \* self.disclaimer_cleaner.stats
    \* ---- one call of SchemeClassifier.classify
    cls_pc, cls_text, cls_result,
    \* ---- one call of ConfigGenerator.generate_config
    cfg_pc, cfg_fields, cfg_enrichment, cfg_result,
    \* ---- one call of DeterministicContentCleaner.get_cleaning_stats
    stats_pc, stats_original, stats_cleaned, stats_result,
    \* ---- one call of a method of ContentCleaner (text_cleaners.py)
    tc_pc, tc_method, tc_text, tc_result,
    \* ---- two DeterministicContentCleaner instances and the objects they hold
    inst, heap,
    \* ---- the documents one cleaner has cleaned before the current one
    calls,
    \* ---- one call of RetailerHubFieldExtractor.extract_fields
    ex_pc, ex_email, ex_result, ex_fields

cleanVars == <<pc, input, text, iteration, paragraphs, protected_paragraphs,
               cleanable_paragraphs, cleanable_text, output, audit_summary,
               cc_stats, disclaimer_stats>>
clsVars == <<cls_pc, cls_text, cls_result>>
cfgVars == <<cfg_pc, cfg_fields, cfg_enrichment, cfg_result>>
statsVars == <<stats_pc, stats_original, stats_cleaned, stats_result>>
tcVars == <<tc_pc, tc_method, tc_text, tc_result>>
twoVars == <<inst, heap>>
repVars == <<calls>>
exVars == <<ex_pc, ex_email, ex_result, ex_fields>>
vars == <<cleanVars, clsVars, cfgVars, statsVars, tcVars, twoVars, repVars, exVars>>

-----------------------------------------------------------------------------
(* Bounds of the model *)

\* longest text enumerated exhaustively over Alphabet
MaxLen == 4
\* longest text handed to classify, in phrases
MaxPhrases == 3
\* most product identifiers in resolved_fsns
MaxFsns == 2
\* longest text cleaned next to a call of generate_config, in tokens
MaxEntryLen == 2
\* most start-marker/end-marker pairs in the repeated-disclaimer texts
MaxPairs == 11

-----------------------------------------------------------------------------
(* Generic sequence helpers *)

Range(s) == {s[i] : i \in 1..Len(s)}

SeqsUpTo(S, n) == UNION {[1..k -> S] : k \in 0..n}

Min(S) == CHOOSE x \in S : \A y \in S : x <= y

\* the indices of s that hold an element of T
Positions(s, T) == {i \in 1..Len(s) : s[i] \in T}

\* sep.join(parts)
RECURSIVE Join(_, _)
Join(parts, sep) ==
    IF parts = <<>> THEN <<>>
    ELSE IF Len(parts) = 1 THEN parts[1]
    ELSE parts[1] \o sep \o Join(Tail(parts), sep)

\* s occurs in t as a contiguous block
IsInfix(s, t) ==
    \E i \in 0..(Len(t) - Len(s)) : SubSeq(t, i + 1, i + Len(s)) = s

-----------------------------------------------------------------------------
(* Tokens and what the patterns of the code match on them *)

Tokens == {"NL", "W", "K", "S1", "S4", "E1", "E3", "DOT", "CC", "FR", "EM",
           "ANG", "COMMA", "H", "F", "D", "V", "PIPE", "TAB", "LONG", "ZWSP"}

\* len() of the string of each token
TokLen == "NL" :> 1 @@ "W" :> 3 @@ "K" :> 4 @@ "S1" :> 44 @@ "S4" :> 46 @@
          "E1" :> 43 @@ "E3" :> 19 @@ "DOT" :> 1 @@ "CC" :> 3 @@ "FR" :> 5 @@
          "EM" :> 7 @@ "ANG" :> 3 @@ "COMMA" :> 1 @@ "H" :> 23 @@ "F" :> 20 @@
          "D" :> 20 @@ "V" :> 7 @@ "PIPE" :> 5 @@ "TAB" :> 3 @@ "LONG" :> 200 @@
          "ZWSP" :> 1

RECURSIVE CharLen(_)
\* len() of the string of a text
CharLen(t) == IF t = <<>> THEN 0 ELSE TokLen[Head(t)] + CharLen(Tail(t))

\* PROTECTED_KEYWORDS: the tokens one of the patterns matches
PROTECTED_KEYWORDS == {"K"}

\* the e-mail pattern [a-z0-9._%+-]+@[a-z0-9.-]+\.[a-z]{2,}
EmailTokens == {"EM"}

\* disclaimer_markers, in list order, by the token each one matches
disclaimer_markers == <<"S1", "S4">>

\* end_markers, in list order, by the token each one matches
end_markers == <<"E1", "E3">>

\* [.\n] : the tokens holding a full stop or a newline, with the offset of
\* the first such character in the token and what is left of the token
\* behind that character
SentenceEndTokens == {"DOT", "NL", "EM"}
SentenceEndOffset == "DOT" :> 0 @@ "NL" :> 0 @@ "EM" :> 3
SentenceEndRest == "DOT" :> <<>> @@ "NL" :> <<>> @@ "EM" :> <<"W">>

\* DisclaimerCleaner.DISCLAIMER_KEYWORDS found in the string of each token
TokKeywords(tok) ==
    CASE tok \in {"S1", "S4"} -> {"confidential"}
      [] tok = "E1" -> {"transaction", "contract"}
      [] tok = "E3" -> {"prohibited"}
      [] tok = "D" -> {"liability"}
      [] tok = "V" -> {"viruses"}
      [] OTHER -> {}

\* DisclaimerCleaner.BOILERPLATE_PATTERNS
BOILERPLATE_PATTERNS == {"D"}

\* CcFooterCleaner.FOOTER_PATTERNS
FOOTER_PATTERNS == {"F"}

\* tokens with "at", "on", "AM" or "PM" behind their first word
AtOnTokens == {"S1", "S4", "E1"}

\* number of '|' in the string of a token
PipeCount(tok) == IF tok = "PIPE" THEN 3 ELSE 0

\* the loop bound of _preprocess_disclaimer_removal
MaxIterations == 10
\* the look-ahead for the end of the sentence behind an end marker
Lookahead == 200
\* DisclaimerCleaner.DENSITY_THRESHOLD
DENSITY_THRESHOLD == 3

-----------------------------------------------------------------------------
(* DeterministicContentCleaner: the stages of clean *)

\* _normalize_text: NFKC, control and invisible characters stripped
normalize_text(t) == SelectSeq(t, LAMBDA tok : tok # "ZWSP")

\* text.split('\n')
RECURSIVE split_lines(_)
split_lines(t) ==
    IF Positions(t, {"NL"}) = {} THEN <<t>>
    ELSE LET i == Min(Positions(t, {"NL"}))
         IN  <<SubSeq(t, 1, i - 1)>> \o split_lines(SubSeq(t, i + 1, Len(t)))

\* re.search(email pattern, line)
has_email(line) == Range(line) \cap EmailTokens # {}

\* line_stripped.endswith((',', ';'))
ends_with_separator(line) == line # <<>> /\ line[Len(line)] = "COMMA"

\* re.match(r'(?i)^Cc\s*:', line_stripped)
is_cc_line(line) == line # <<>> /\ line[1] = "CC"

\* header_pattern.match(line_stripped) with r'(?i)^(From|To)\s*:'
is_from_to_line(line) == line # <<>> /\ line[1] = "FR"

\* the loop of _preprocess_cc_removal dropping the line that closes a block
RECURSIVE cc_scan_drops_closing_line(_, _)
cc_scan_drops_closing_line(lines, skip) ==
    IF lines = <<>> THEN [kept |-> <<>>, removed |-> 0]
    ELSE LET line == Head(lines)
         IN  IF is_cc_line(line)
             THEN LET r == cc_scan_drops_closing_line(Tail(lines), TRUE)
                  IN  [kept |-> r.kept, removed |-> r.removed + 1]
             ELSE IF skip /\ (has_email(line) \/ ends_with_separator(line))
             THEN cc_scan_drops_closing_line(Tail(lines), TRUE)
             ELSE IF skip
             THEN cc_scan_drops_closing_line(Tail(lines), FALSE)
             ELSE LET r == cc_scan_drops_closing_line(Tail(lines), FALSE)
                  IN  [kept |-> <<line>> \o r.kept, removed |-> r.removed]

\* the loop of _preprocess_cc_removal over the lines, skip_cc_block = skip
RECURSIVE cc_scan(_, _)
cc_scan(lines, skip) ==
    IF lines = <<>> THEN [kept |-> <<>>, removed |-> 0]
    ELSE LET line == Head(lines)
         IN  IF is_cc_line(line)
             THEN LET r == cc_scan(Tail(lines), TRUE)
                  IN  [kept |-> r.kept, removed |-> r.removed + 1]
             ELSE IF skip /\ (has_email(line) \/ ends_with_separator(line))
             THEN cc_scan(Tail(lines), TRUE)
             ELSE LET r == cc_scan(Tail(lines), FALSE)
                  IN  [kept |-> <<line>> \o r.kept, removed |-> r.removed]

\* _preprocess_cc_removal: the text returned and the increase of `removed`
preprocess_cc_removal(t) ==
    LET r == cc_scan(split_lines(t), FALSE)
    IN  [text |-> Join(r.kept, <<"NL">>), removed |-> r.removed]

\* the loop of _preprocess_from_to_removal with '<' and '>' not looked for
RECURSIVE from_to_scan_ignores_brackets(_, _)
from_to_scan_ignores_brackets(lines, skip) ==
    IF lines = <<>> THEN [kept |-> <<>>, removed |-> 0]
    ELSE LET line == Head(lines)
         IN  IF is_from_to_line(line)
             THEN LET r == from_to_scan_ignores_brackets(Tail(lines), TRUE)
                  IN  [kept |-> r.kept, removed |-> r.removed + 1]
             ELSE IF skip /\ line # <<>>
                          /\ (has_email(line) \/ ends_with_separator(line))
             THEN from_to_scan_ignores_brackets(Tail(lines), TRUE)
             ELSE LET r == from_to_scan_ignores_brackets(Tail(lines), FALSE)
                  IN  [kept |-> <<line>> \o r.kept, removed |-> r.removed]

\* the loop of _preprocess_from_to_removal over the lines
RECURSIVE from_to_scan(_, _)
from_to_scan(lines, skip) ==
    IF lines = <<>> THEN [kept |-> <<>>, removed |-> 0]
    ELSE LET line == Head(lines)
             is_list_continuation ==
                 ends_with_separator(line) \/ "ANG" \in Range(line)
         IN  IF is_from_to_line(line)
             THEN LET r == from_to_scan(Tail(lines), TRUE)
                  IN  [kept |-> r.kept, removed |-> r.removed + 1]
             ELSE IF skip /\ line # <<>>
                          /\ (has_email(line) \/ is_list_continuation)
             THEN from_to_scan(Tail(lines), TRUE)
             ELSE LET r == from_to_scan(Tail(lines), FALSE)
                  IN  [kept |-> <<line>> \o r.kept, removed |-> r.removed]

\* _preprocess_from_to_removal
preprocess_from_to_removal(t) ==
    LET r == from_to_scan(split_lines(t), FALSE)
    IN  [text |-> Join(r.kept, <<"NL">>), removed |-> r.removed]

\* the first entry of the list `markers` that occurs in t at an index > from
\* (0 when none does)
RECURSIVE first_matching(_, _, _)
first_matching(markers, t, from) ==
    IF markers = <<>> THEN 0
    ELSE LET hits == {i \in Positions(t, {Head(markers)}) : i > from}
         IN  IF hits # {} THEN Min(hits)
             ELSE first_matching(Tail(markers), t, from)

\* the loop test with the bound off by one: `while iteration <= 10`
loop_continues_inclusive(iter) == iter <= MaxIterations

\* `while iteration < 10`
loop_continues(iter) == iter < MaxIterations

\* the pass without the end markers: everything from the start marker on
\* goes
disclaimer_pass_to_end_of_text(t) ==
    LET start == first_matching(disclaimer_markers, t, 0)
    IN  IF start = 0 THEN [found |-> FALSE, text |-> t, removed |-> 0]
        ELSE [found |-> TRUE, text |-> SubSeq(t, 1, start - 1), removed |-> 1]

\* one pass of the while loop of _preprocess_disclaimer_removal:
\* found, the text after the pass, and the increase of `removed`
disclaimer_pass(t) ==
    LET start == first_matching(disclaimer_markers, t, 0)
    IN  IF start = 0 THEN [found |-> FALSE, text |-> t, removed |-> 0]
        ELSE
        LET e == first_matching(end_markers, t, start)
            \* the tokens behind the end marker that hold '.' or '\n'
            cands == {k \in Positions(t, SentenceEndTokens) : k > e}
            k == IF cands = {} THEN 0 ELSE Min(cands)
            \* offset of that character in text[end_pos:]
            off == IF k = 0 THEN 0
                   ELSE CharLen(SubSeq(t, e + 1, k - 1)) + SentenceEndOffset[t[k]]
            sentence_end == e # 0 /\ k # 0 /\ off < Lookahead
            rest == IF e = 0 THEN <<>>
                    ELSE IF sentence_end
                    THEN SentenceEndRest[t[k]] \o SubSeq(t, k + 1, Len(t))
                    ELSE SubSeq(t, e + 1, Len(t))
            \* end_pos - start_pos, in characters
            cut == CharLen(t) - CharLen(SubSeq(t, 1, start - 1)) - CharLen(rest)
        IN  IF cut > 0
            THEN [found |-> TRUE, text |-> SubSeq(t, 1, start - 1) \o rest,
                  removed |-> 1]
            ELSE [found |-> TRUE, text |-> t, removed |-> 0]

\* re.split(r'\n\s*\n', text)
RECURSIVE re_split_blank(_)
re_split_blank(t) ==
    LET starts == {i \in 1..(Len(t) - 1) : t[i] = "NL" /\ t[i + 1] = "NL"}
    IN  IF starts = {} THEN <<t>>
        ELSE LET i == Min(starts)
                 j == Min({n \in (i + 1)..Len(t) :
                               n = Len(t) \/ t[n + 1] # "NL"})
             IN  <<SubSeq(t, 1, i - 1)>> \o re_split_blank(SubSeq(t, j + 1, Len(t)))

\* str.strip()
RECURSIVE strip(_)
strip(t) ==
    IF t = <<>> THEN t
    ELSE IF Head(t) = "NL" THEN strip(Tail(t))
    ELSE IF t[Len(t)] = "NL" THEN strip(SubSeq(t, 1, Len(t) - 1))
    ELSE t

RECURSIVE strip_all(_)
strip_all(parts) ==
    IF parts = <<>> THEN <<>> ELSE <<strip(Head(parts))>> \o strip_all(Tail(parts))

\* _segment_paragraphs: [p.strip() for p in re.split(...) if p.strip()]
segment_paragraphs(t) ==
    SelectSeq(strip_all(re_split_blank(t)), LAMBDA p : p # <<>>)

\* [l.strip() for l in text.split('\n') if l.strip()]
nonempty_lines(p) == SelectSeq(split_lines(p), LAMBDA l : l # <<>>)

RECURSIVE pipes(_)
\* line.count('|')
pipes(line) == IF line = <<>> THEN 0 ELSE PipeCount(Head(line)) + pipes(Tail(line))

\* _is_table
is_table(p) ==
    LET lines == nonempty_lines(p)
        pipe_lines == Cardinality({i \in 1..Len(lines) : pipes(lines[i]) >= 2})
        alignment_lines ==
            Cardinality({i \in 1..Len(lines) : "TAB" \in Range(lines[i])})
    IN  IF lines = <<>> THEN FALSE
        ELSE IF pipe_lines >= 2 THEN TRUE
        ELSE Len(lines) > 1 /\ 2 * alignment_lines >= Len(lines)

\* _is_protected: e-mail addresses stripped, then any protected pattern
is_protected(p) ==
    LET text_no_emails == SelectSeq(p, LAMBDA tok : tok \notin EmailTokens)
    IN  Range(text_no_emails) \cap PROTECTED_KEYWORDS # {}

-----------------------------------------------------------------------------
(* CcFooterCleaner and DisclaimerCleaner: the predicates clean calls *)

\* any(p.search(line) for p in self._compiled_headers)
is_header_line(l) ==
    \/ l # <<>> /\ l[1] = "FR"                     \* ^\s*(From|Sent|Date|To|Subject)\s*:
    \/ "H" \in Range(l)                            \* Forwarded message
    \/ \E i, j \in 1..Len(l) :                     \* e-mail ... (AM|PM|at|on)
           i < j /\ l[i] \in EmailTokens /\ l[j] \in AtOnTokens

\* CcFooterCleaner._is_header
is_header(p) ==
    LET lines == nonempty_lines(p)
        has_metadata == \E i \in 1..Len(lines) : lines[i][1] \in {"FR", "CC"}
        header_lines ==
            Cardinality({i \in 1..Len(lines) : is_header_line(lines[i])})
    IN  IF lines = <<>> THEN FALSE
        ELSE IF "H" \in Range(p) THEN TRUE
        ELSE IF Len(lines) = 1 THEN header_lines = 1
        ELSE 2 * header_lines >= Len(lines) \/ (has_metadata /\ Len(lines) < 5)

\* CcFooterCleaner._is_footer
is_footer(p) == Range(p) \cap FOOTER_PATTERNS # {}

\* matched_keywords of DisclaimerCleaner._is_disclaimer
matched_keywords(p) == UNION {TokKeywords(tok) : tok \in Range(p)}

\* the keyword-density branch of _is_disclaimer, which also appends to
\* stats["keyword_matches"]
is_dense(p) == Cardinality(matched_keywords(p)) >= DENSITY_THRESHOLD

\* DisclaimerCleaner._is_disclaimer (its return value)
is_disclaimer(p) == is_dense(p) \/ Range(p) \cap BOILERPLATE_PATTERNS # {}

\* the entries _is_disclaimer appends to stats["keyword_matches"] when it is
\* called on each paragraph of ps in turn (text_preview left out)
RECURSIVE keyword_entries(_)
keyword_entries(ps) ==
    IF ps = <<>> THEN <<>>
    ELSE (IF is_dense(Head(ps))
          THEN <<[keywords_found |-> matched_keywords(Head(ps)),
                  count |-> Cardinality(matched_keywords(Head(ps)))]>>
          ELSE <<>>) \o keyword_entries(Tail(ps))

\* a paragraph of the cleanable set that _clean_with_cc_footer keeps
survives_cc_footer(p) == ~is_header(p) /\ ~is_footer(p)

\* _clean_with_cc_footer: the text returned and the increases of the counters
clean_with_cc_footer(t) ==
    IF strip(t) = <<>> THEN [text |-> t, removed |-> 0, retained |-> 0]
    ELSE LET ps == segment_paragraphs(t)
             cleaned == SelectSeq(ps, survives_cc_footer)
         IN  [text |-> Join(cleaned, <<"NL", "NL">>),
              removed |-> Len(ps) - Len(cleaned),
              retained |-> Len(cleaned)]

\* _clean_with_disclaimer
clean_with_disclaimer(t) ==
    IF strip(t) = <<>> THEN [text |-> t, removed |-> 0, matches |-> <<>>]
    ELSE LET ps == segment_paragraphs(t)
             cleaned == SelectSeq(ps, LAMBDA p : ~is_disclaimer(p))
         IN  [text |-> Join(cleaned, <<"NL", "NL">>),
              removed |-> Len(ps) - Len(cleaned),
              matches |-> keyword_entries(ps)]

\* cleanable_text.split('\n\n')
RECURSIVE split_blank_literal(_)
split_blank_literal(t) ==
    LET starts == {i \in 1..(Len(t) - 1) : t[i] = "NL" /\ t[i + 1] = "NL"}
    IN  IF starts = {} THEN <<t>>
        ELSE LET i == Min(starts)
             IN  <<SubSeq(t, 1, i - 1)>>
                     \o split_blank_literal(SubSeq(t, i + 2, Len(t)))

\* step 4 of clean with the protection check in front of the table check
classify_paragraph_protected_first(p) ==
    IF is_protected(p) THEN "protected"
    ELSE IF is_table(p) THEN "table"
    ELSE "cleanable"

\* the branch a paragraph takes in step 4 of clean
classify_paragraph(p) ==
    IF is_table(p) THEN "table"
    ELSE IF is_protected(p) THEN "protected"
    ELSE "cleanable"

\* clean, lines 141-146, with the cleanable paragraphs put first
combine_cleanable_first(protected, cleanable) ==
    Join(IF strip(cleanable) # <<>>
         THEN split_blank_literal(cleanable) \o protected
         ELSE protected,
         <<"NL", "NL">>)

\* the paragraphs joined by '\n' instead of '\n\n'
combine_single_newline(protected, cleanable) ==
    Join(IF strip(cleanable) # <<>>
         THEN protected \o split_blank_literal(cleanable)
         ELSE protected,
         <<"NL">>)

\* clean, lines 141-146: protected paragraphs first, then what is left of
\* the cleanable text, joined by blank lines
combine(protected, cleanable) ==
    Join(IF strip(cleanable) # <<>>
         THEN protected \o split_blank_literal(cleanable)
         ELSE protected,
         <<"NL", "NL">>)

-----------------------------------------------------------------------------
(* clean as a function of its argument, for a fresh cleaner *)

\* the while loop of _preprocess_disclaimer_removal from pass `iter` on
RECURSIVE disclaimer_loop(_, _)
disclaimer_loop(t, iter) ==
    IF ~loop_continues(iter) THEN [text |-> t, removed |-> 0]
    ELSE LET r == disclaimer_pass(t)
         IN  IF ~r.found THEN [text |-> t, removed |-> 0]
             ELSE LET s == disclaimer_loop(r.text, iter + 1)
                  IN  [text |-> s.text, removed |-> r.removed + s.removed]

\* _preprocess_disclaimer_removal
preprocess_disclaimer_removal(t) == disclaimer_loop(t, 0)

\* the string clean returns on a fresh DeterministicContentCleaner
clean(txt) ==
    IF txt = <<>> THEN <<>>
    ELSE
    LET t1 == preprocess_cc_removal(normalize_text(txt)).text
        t2 == preprocess_from_to_removal(t1).text
        t3 == preprocess_disclaimer_removal(t2).text
        ps == segment_paragraphs(t3)
        prot == SelectSeq(ps, LAMBDA p : classify_paragraph(p) # "cleanable")
        cl == SelectSeq(ps, LAMBDA p : classify_paragraph(p) = "cleanable")
        c1 == clean_with_cc_footer(Join(cl, <<"NL", "NL">>)).text
        c2 == clean_with_disclaimer(c1).text
    IN  IF ps = <<>> THEN <<>> ELSE combine(prot, c2)

-----------------------------------------------------------------------------
(* The texts clean is called on *)

\* tokens of the exhaustively enumerated texts
Alphabet == {"NL", "W", "K", "S4", "E3", "DOT", "CC", "FR", "EM", "H", "F",
             "D", "PIPE"}

\* n disclaimers, each with its end marker, one after the other
RECURSIVE RepeatPairs(_)
RepeatPairs(n) == IF n = 0 THEN <<>> ELSE <<"S4", "E3">> \o RepeatPairs(n - 1)

\* longer texts mixing tables, protected and noisy paragraphs
ScenarioTexts == {
    <<"PIPE", "NL", "PIPE", "NL", "NL", "D">>,
    <<"PIPE", "K", "NL", "PIPE", "NL", "NL", "W", "NL", "NL", "K">>,
    <<"W", "NL", "NL", "PIPE", "NL", "PIPE", "D", "NL", "NL", "K", "F">>,
    <<"TAB", "NL", "TAB", "NL", "NL", "H">>,
    <<"TAB", "NL", "W", "NL", "W", "NL", "NL", "W">>,
    <<"E1", "E3", "NL", "NL", "W">>,
    <<"E1", "NL", "NL", "V">>,
    <<"S4", "NL", "NL", "K">>,
    <<"W", "NL", "NL", "S4", "K", "E3", "DOT", "NL", "NL", "W">>,
    <<"E1", "V", "NL", "NL", "K", "E1", "V">>,
    <<"S1", "W", "E3", "DOT", "NL", "NL", "K">>,
    <<"W", "S4", "NL", "S1", "E3", "E1", "LONG", "DOT", "K">>,
    <<"S4", "E3", "LONG", "DOT", "NL", "NL", "K">>,
    <<"S4", "E3", "W", "EM", "NL", "NL", "K">>,
    <<"CC", "EM", "COMMA", "NL", "EM", "NL", "W", "K">>,
    <<"CC", "EM", "COMMA", "EM", "NL", "W", "COMMA", "W", "K", "DOT">>,
    <<"FR", "EM", "COMMA", "NL", "ANG", "NL", "NL", "K", "NL", "W">>,
    <<"FR", "W", "NL", "W", "COMMA", "NL", "W", "NL", "NL", "EM", "E1">>,
    <<"W", "ZWSP", "NL", "ZWSP", "NL", "K", "ZWSP">>,
    <<"W", "NL", "NL", "K", "NL", "NL", "W", "NL", "NL", "D", "NL", "NL", "K">>
}

InputTexts ==
    SeqsUpTo(Alphabet, MaxLen) \cup ScenarioTexts
        \cup {RepeatPairs(n) : n \in 1..MaxPairs}

-----------------------------------------------------------------------------
(* clean as a state machine *)

NoAudit == [removed |-> 0, retained |-> 0, audit_log |-> <<>>,
            protected_count |-> 0, table_count |-> 0]

\* CcFooterCleaner.__init__
NoCcStats == [cc_blocks_removed |-> 0, headers_removed |-> 0,
              footers_removed |-> 0, paragraphs_removed |-> 0]

\* DisclaimerCleaner.__init__
NoDisclaimerStats == [disclaimers_removed |-> 0, disclaimer_blocks_removed |-> 0,
                      paragraphs_removed |-> 0, keyword_matches |-> <<>>]

\* a fresh DeterministicContentCleaner about to clean `txt`
CleanerAt(p, txt) ==
    /\ pc = p
    /\ input = txt
    /\ text = <<>>
    /\ iteration = 0
    /\ paragraphs = <<>>
    /\ protected_paragraphs = <<>>
    /\ cleanable_paragraphs = <<>>
    /\ cleanable_text = <<>>
    /\ output = <<>>
    /\ audit_summary = NoAudit
    /\ cc_stats = NoCcStats
    /\ disclaimer_stats = NoDisclaimerStats

\* clean, lines 99-103: the empty text returns at once, else normalise
Normalize ==
    /\ pc = "start"
    /\ IF input = <<>>
       THEN pc' = "done" /\ output' = <<>> /\ text' = text
       ELSE pc' = "cc" /\ text' = normalize_text(input) /\ output' = output
    /\ UNCHANGED <<clsVars, cfgVars, statsVars, tcVars, twoVars, repVars, exVars>>
    /\ UNCHANGED <<input, iteration, paragraphs, protected_paragraphs,
                   cleanable_paragraphs, cleanable_text, audit_summary,
                   cc_stats, disclaimer_stats>>

\* clean, line 106
PreprocessCc ==
    /\ pc = "cc"
    /\ LET r == preprocess_cc_removal(text)
       IN  /\ text' = r.text
           /\ audit_summary' =
                  [audit_summary EXCEPT !.removed = @ + r.removed]
    /\ pc' = "from_to"
    /\ UNCHANGED <<clsVars, cfgVars, statsVars, tcVars, twoVars, repVars, exVars>>
    /\ UNCHANGED <<input, iteration, paragraphs, protected_paragraphs,
                   cleanable_paragraphs, cleanable_text, output,
                   cc_stats, disclaimer_stats>>

\* clean, line 107
PreprocessFromTo ==
    /\ pc = "from_to"
    /\ LET r == preprocess_from_to_removal(text)
       IN  /\ text' = r.text
           /\ audit_summary' =
                  [audit_summary EXCEPT !.removed = @ + r.removed]
    /\ pc' = "disclaimer"
    /\ iteration' = 0
    /\ UNCHANGED <<clsVars, cfgVars, statsVars, tcVars, twoVars, repVars, exVars>>
    /\ UNCHANGED <<input, paragraphs, protected_paragraphs,
                   cleanable_paragraphs, cleanable_text, output,
                   cc_stats, disclaimer_stats>>

\* one pass of the while loop of _preprocess_disclaimer_removal that finds
\* a start marker
DisclaimerPass ==
    /\ pc = "disclaimer"
    /\ loop_continues(iteration)
    /\ LET r == disclaimer_pass(text)
       IN  /\ r.found
           /\ text' = r.text
           /\ audit_summary' =
                  [audit_summary EXCEPT !.removed = @ + r.removed]
    /\ iteration' = iteration + 1
    /\ UNCHANGED <<clsVars, cfgVars, statsVars, tcVars, twoVars, repVars, exVars>>
    /\ UNCHANGED <<pc, input, paragraphs, protected_paragraphs,
                   cleanable_paragraphs, cleanable_text, output,
                   cc_stats, disclaimer_stats>>

\* the loop ends: the bound is reached or the pass finds no start marker
DisclaimerExit ==
    /\ pc = "disclaimer"
    /\ ~loop_continues(iteration) \/ ~disclaimer_pass(text).found
    /\ pc' = "segment"
    /\ UNCHANGED <<clsVars, cfgVars, statsVars, tcVars, twoVars, repVars, exVars>>
    /\ UNCHANGED <<input, text, iteration, paragraphs, protected_paragraphs,
                   cleanable_paragraphs, cleanable_text, output,
                   audit_summary, cc_stats, disclaimer_stats>>

\* clean, lines 111-113
Segment ==
    /\ pc = "segment"
    /\ paragraphs' = segment_paragraphs(text)
    /\ IF paragraphs' = <<>>
       THEN pc' = "done" /\ output' = <<>>
       ELSE pc' = "classify" /\ output' = output
    /\ UNCHANGED <<clsVars, cfgVars, statsVars, tcVars, twoVars, repVars, exVars>>
    /\ UNCHANGED <<input, text, iteration, protected_paragraphs,
                   cleanable_paragraphs, cleanable_text, audit_summary,
                   cc_stats, disclaimer_stats>>

\* clean, lines 116-136
ClassifyParagraphs ==
    /\ pc = "classify"
    /\ LET tables == SelectSeq(paragraphs,
                               LAMBDA p : classify_paragraph(p) = "table")
           prot == SelectSeq(paragraphs,
                             LAMBDA p : classify_paragraph(p) = "protected")
       IN  /\ protected_paragraphs' =
                  SelectSeq(paragraphs,
                            LAMBDA p : classify_paragraph(p) # "cleanable")
           /\ cleanable_paragraphs' =
                  SelectSeq(paragraphs,
                            LAMBDA p : classify_paragraph(p) = "cleanable")
           /\ audit_summary' =
                  [audit_summary EXCEPT
                      !.table_count = @ + Len(tables),
                      !.protected_count = @ + Len(prot),
                      !.retained = @ + Len(tables) + Len(prot)]
    /\ cleanable_text' = Join(cleanable_paragraphs', <<"NL", "NL">>)
    /\ pc' = "cc_footer"
    /\ UNCHANGED <<clsVars, cfgVars, statsVars, tcVars, twoVars, repVars, exVars>>
    /\ UNCHANGED <<input, text, iteration, paragraphs, output,
                   cc_stats, disclaimer_stats>>

\* clean, line 137
CleanCcFooter ==
    /\ pc = "cc_footer"
    /\ LET r == clean_with_cc_footer(cleanable_text)
       IN  /\ cleanable_text' = r.text
           /\ audit_summary' =
                  [audit_summary EXCEPT !.removed = @ + r.removed,
                                        !.retained = @ + r.retained]
    /\ pc' = "disclaimer_filter"
    /\ UNCHANGED <<clsVars, cfgVars, statsVars, tcVars, twoVars, repVars, exVars>>
    /\ UNCHANGED <<input, text, iteration, paragraphs, protected_paragraphs,
                   cleanable_paragraphs, output, cc_stats, disclaimer_stats>>

\* clean, line 138
CleanDisclaimer ==
    /\ pc = "disclaimer_filter"
    /\ LET r == clean_with_disclaimer(cleanable_text)
       IN  /\ cleanable_text' = r.text
           /\ audit_summary' =
                  [audit_summary EXCEPT !.removed = @ + r.removed]
           /\ disclaimer_stats' =
                  [disclaimer_stats EXCEPT !.keyword_matches = @ \o r.matches]
    /\ pc' = "combine"
    /\ UNCHANGED <<clsVars, cfgVars, statsVars, tcVars, twoVars, repVars, exVars>>
    /\ UNCHANGED <<input, text, iteration, paragraphs, protected_paragraphs,
                   cleanable_paragraphs, output, cc_stats>>

\* clean, lines 141-146, with _aggregate_stats
Combine ==
    /\ pc = "combine"
    /\ output' = combine(protected_paragraphs, cleanable_text)
    /\ audit_summary' =
           [audit_summary EXCEPT
               !.removed = @ + cc_stats.paragraphs_removed
                             + disclaimer_stats.paragraphs_removed]
    /\ pc' = "done"
    /\ UNCHANGED <<clsVars, cfgVars, statsVars, tcVars, twoVars, repVars, exVars>>
    /\ UNCHANGED <<input, text, iteration, paragraphs, protected_paragraphs,
                   cleanable_paragraphs, cleanable_text, cc_stats,
                   disclaimer_stats>>

\* the classifier, the generator and the statistics when they are not the
\* subject
ClassifierIdle ==
    /\ cls_pc = "idle"
    /\ cls_text = <<>>
    /\ cls_result = [scheme_type |-> "", scheme_subtype |-> "", keywords |-> <<>>]

\* a dict without keys
EmptyDict == [k \in {} |-> ""]

GeneratorIdle ==
    /\ cfg_pc = "idle"
    /\ cfg_fields = EmptyDict
    /\ cfg_enrichment = EmptyDict
    /\ cfg_result = EmptyDict

\* None of Python, which is no text
None == <<"None">>

StatsIdle ==
    /\ stats_pc = "idle"
    /\ stats_original = None
    /\ stats_cleaned = None
    /\ stats_result = EmptyDict

ContentCleanerIdle ==
    /\ tc_pc = "idle"
    /\ tc_method = "none"
    /\ tc_text = <<>>
    /\ tc_result = <<>>

\* no second pair of cleaners is constructed
InstancesIdle ==
    /\ inst = <<>>
    /\ heap = <<>>

\* clean has not been called on the cleaner before
FirstCall == calls = <<>>

\* extract_fields is not called
ExtractorIdle ==
    /\ ex_pc = "idle"
    /\ ex_email = <<>>
    /\ ex_result = EmptyDict
    /\ ex_fields = EmptyDict

Init ==
    /\ \E txt \in InputTexts : CleanerAt("start", txt)
    /\ ClassifierIdle
    /\ GeneratorIdle
    /\ StatsIdle
    /\ ContentCleanerIdle
    /\ InstancesIdle
    /\ FirstCall
    /\ ExtractorIdle

Next ==
    \/ Normalize
    \/ PreprocessCc
    \/ PreprocessFromTo
    \/ DisclaimerPass
    \/ DisclaimerExit
    \/ Segment
    \/ ClassifyParagraphs
    \/ CleanCcFooter
    \/ CleanDisclaimer
    \/ Combine

Spec == Init /\ [][Next]_vars

-----------------------------------------------------------------------------
(* SchemeClassifier *)

(***************************************************************************)
(* The text handed to classify is a sequence of phrases, standing for the  *)
(* phrases joined by single spaces.  KeywordsIn gives, for each phrase,    *)
(* the keywords of Config.SCHEME_KEYWORDS that are substrings of the       *)
(* lower-cased phrase (`keyword in text_lower`); no keyword spans two      *)
(* phrases.                                                                *)
(***************************************************************************)
Phrases == {"hello", "one-off", "price drop", "sellin price drop",
            "pricing support", "jbp", "cashback", "coupon", "super coin",
            "prexo", "sellout", "Q1"}

KeywordsIn(ph) ==
    CASE ph = "one-off" -> {"one-off"}
      [] ph = "price drop" -> {"price drop"}
      [] ph = "sellin price drop" -> {"sellin", "price drop", "sellin price drop"}
      [] ph = "pricing support" -> {"pp", "pricing support"}
      [] ph = "jbp" -> {"jbp"}
      [] ph = "cashback" -> {"cashback"}
      [] ph = "coupon" -> {"coupon"}
      [] ph = "super coin" -> {"super coin"}
      [] ph = "prexo" -> {"prexo"}
      [] ph = "sellout" -> {"sellout"}
      [] ph = "Q1" -> {"q1"}
      [] OTHER -> {}

\* Config.SCHEME_KEYWORDS
KW_BUY_SIDE_PERIODIC_CLAIM ==
    <<"jbp", "joint business plan", "tot", "terms of trade", "sell in",
      "sell-in", "sellin", "buy side", "buyside", "periodic", "quarter", "q1",
      "q2", "q3", "q4", "annual", "fy", "yearly support", "marketing support",
      "gmv support", "nrv", "nrv-linked", "inwards", "net inwards",
      "inventory support", "business plan", "commercial alignment",
      "funding for fy">>
KW_BUY_SIDE_PDC ==
    <<"price drop", "price protection", "pp", "pdc", "cost reduction",
      "nlc change", "cost change", "sellin price drop",
      "invoice cost correction", "backward margin", "revision in buy price">>
KW_ONE_OFF ==
    <<"one off", "one-off", "one off buyside", "one off sell side",
      "ad-hoc approval", "special approval">>
KW_SELL_SIDE_PUC_FDC ==
    <<"sellout", "sell out", "sell-side", "puc", "cp", "fdc",
      "pricing support", "channel support", "market support",
      "discount on selling price", "rest all support">>
KW_SELL_SIDE_COUPON ==
    <<"coupon", "vpc", "promo code", "offer code", "discount coupon", "voucher">>
KW_SELL_SIDE_SUPER_COIN == <<"super coin", "sc funding", "loyalty coins">>
KW_SELL_SIDE_PREXO ==
    <<"exchange", "prexo", "upgrade", "bump up", "bup", "exchange offer">>
KW_SELL_SIDE_BANK_OFFER ==
    <<"bank offer", "card offer", "hdfc offer", "axis offer", "icici offer",
      "cashback", "emi offer">>

\* Config.DEFAULT_SCHEME_TYPE, Config.DEFAULT_SCHEME_SUBTYPE
DEFAULT_SCHEME_TYPE == "SELL_SIDE"
DEFAULT_SCHEME_SUBTYPE == "PUC/FDC"

\* SchemeClassifier._find_keywords: the keywords of the list found in the text
find_keywords(txt, keyword_list) ==
    SelectSeq(keyword_list,
              LAMBDA kw : \E i \in 1..Len(txt) : kw \in KeywordsIn(txt[i]))

Verdict(type, subtype, found) ==
    [scheme_type |-> type, scheme_subtype |-> subtype, keywords |-> found]

\* classify with the PERIODIC_CLAIM test ahead of the PDC test
classify_periodic_before_pdc(txt) ==
    LET one_off_keywords == find_keywords(txt, KW_ONE_OFF)
        buy_side_periodic == find_keywords(txt, KW_BUY_SIDE_PERIODIC_CLAIM)
        buy_side_pdc == find_keywords(txt, KW_BUY_SIDE_PDC)
        puc_fdc == find_keywords(txt, KW_SELL_SIDE_PUC_FDC)
        coupon == find_keywords(txt, KW_SELL_SIDE_COUPON)
        super_coin == find_keywords(txt, KW_SELL_SIDE_SUPER_COIN)
        prexo == find_keywords(txt, KW_SELL_SIDE_PREXO)
        bank_offer == find_keywords(txt, KW_SELL_SIDE_BANK_OFFER)
    IN  IF one_off_keywords # <<>>
        THEN Verdict("ONE_OFF", "N/A", one_off_keywords)
        ELSE IF buy_side_periodic # <<>>
        THEN Verdict("BUY_SIDE", "PERIODIC_CLAIM", buy_side_periodic)
        ELSE IF buy_side_pdc # <<>>
        THEN Verdict("BUY_SIDE", "PDC", buy_side_pdc)
        ELSE IF bank_offer # <<>>
        THEN Verdict("SELL_SIDE", "BANK OFFER", bank_offer)
        ELSE IF coupon # <<>>
        THEN Verdict("SELL_SIDE", "COUPON", coupon)
        ELSE IF super_coin # <<>>
        THEN Verdict("SELL_SIDE", "SUPER COIN", super_coin)
        ELSE IF prexo # <<>>
        THEN Verdict("SELL_SIDE", "PREXO", prexo)
        ELSE IF puc_fdc # <<>>
        THEN Verdict("SELL_SIDE", "PUC/FDC", puc_fdc)
        ELSE Verdict(DEFAULT_SCHEME_TYPE, DEFAULT_SCHEME_SUBTYPE, <<>>)

\* SchemeClassifier.classify: type, subtype and the keywords the reasoning cites
classify(txt) ==
    LET one_off_keywords == find_keywords(txt, KW_ONE_OFF)
        buy_side_periodic == find_keywords(txt, KW_BUY_SIDE_PERIODIC_CLAIM)
        buy_side_pdc == find_keywords(txt, KW_BUY_SIDE_PDC)
        puc_fdc == find_keywords(txt, KW_SELL_SIDE_PUC_FDC)
        coupon == find_keywords(txt, KW_SELL_SIDE_COUPON)
        super_coin == find_keywords(txt, KW_SELL_SIDE_SUPER_COIN)
        prexo == find_keywords(txt, KW_SELL_SIDE_PREXO)
        bank_offer == find_keywords(txt, KW_SELL_SIDE_BANK_OFFER)
    IN  IF one_off_keywords # <<>>
        THEN Verdict("ONE_OFF", "N/A", one_off_keywords)
        ELSE IF buy_side_pdc # <<>>
        THEN Verdict("BUY_SIDE", "PDC", buy_side_pdc)
        ELSE IF buy_side_periodic # <<>>
        THEN Verdict("BUY_SIDE", "PERIODIC_CLAIM", buy_side_periodic)
        ELSE IF bank_offer # <<>>
        THEN Verdict("SELL_SIDE", "BANK OFFER", bank_offer)
        ELSE IF coupon # <<>>
        THEN Verdict("SELL_SIDE", "COUPON", coupon)
        ELSE IF super_coin # <<>>
        THEN Verdict("SELL_SIDE", "SUPER COIN", super_coin)
        ELSE IF prexo # <<>>
        THEN Verdict("SELL_SIDE", "PREXO", prexo)
        ELSE IF puc_fdc # <<>>
        THEN Verdict("SELL_SIDE", "PUC/FDC", puc_fdc)
        ELSE Verdict(DEFAULT_SCHEME_TYPE, DEFAULT_SCHEME_SUBTYPE, <<>>)

NoVerdict == Verdict("", "", <<>>)

\* a call of classify returns
Classify ==
    /\ cls_pc = "call"
    /\ cls_result' = classify(cls_text)
    /\ cls_pc' = "done"
    /\ UNCHANGED <<cls_text, cleanVars, cfgVars, statsVars, tcVars, twoVars, repVars, exVars>>

ClassifyInit ==
    /\ cls_pc = "call"
    /\ cls_text \in SeqsUpTo(Phrases, MaxPhrases)
    /\ cls_result = NoVerdict
    /\ CleanerAt("idle", <<>>)
    /\ GeneratorIdle
    /\ StatsIdle
    /\ ContentCleanerIdle
    /\ InstancesIdle
    /\ FirstCall
    /\ ExtractorIdle

ClassifyNext == Classify

ClassifySpec == ClassifyInit /\ [][ClassifyNext]_vars

-----------------------------------------------------------------------------
(* ConfigGenerator *)

(***************************************************************************)
(* A dict is a function from a finite set of keys.  The values of          *)
(* scheme_type and scheme_subtype, which generate_config pastes into a     *)
(* method name, are written as the sequence of their "_"-separated         *)
(* segments ("BUY_SIDE" is <<"BUY", "SIDE">>, "" is <<"">>); every other   *)
(* string value is a string, and resolved_fsns is a sequence of strings.   *)
(***************************************************************************)

\* dict.get(key, default)
Get(d, key, default) == IF key \in DOMAIN d THEN d[key] ELSE default

\* d without the key (del d[key])
Without(d, key) == [k \in DOMAIN d \ {key} |-> d[k]]

\* {**d, key: value}
With(d, key, value) == (key :> value) @@ d

\* the getter without `value if value else fallback`: an empty value is kept
get_config_field_keeps_empty(fields, config_key, fallback) ==
    Get(fields, config_key, fallback)

\* ConfigGenerator._get_config_field
get_config_field(fields, config_key, fallback) ==
    LET value == Get(fields, config_key, fallback)
    IN  IF value # "" THEN value ELSE fallback

\* ConfigGenerator._gen_PDC
gen_PDC(fields) ==
    [config_type |-> "PDC",
     extraction_source |-> "LLM",
     fields |-> [
        ProductId |-> "Populate from FSN File",
        brandSupport |-> get_config_field(fields, "config_brand_support", "Not specified"),
        maxQuantity |-> get_config_field(fields, "config_unit_slab_upper", "999999"),
        priceDropDate |-> Get(fields, "price_drop_date", "N/A"),
        maxSupportValue |-> get_config_field(fields, "config_max_support_value", "No Cap")]]

\* ConfigGenerator._gen_BUY_SIDE_PERIODIC_CLAIM
gen_BUY_SIDE_PERIODIC_CLAIM(fields) ==
    [config_type |-> "BS-PC",
     extraction_source |-> "LLM",
     fields |-> [
        ProductId |-> "Populate from FSN File",
        unitSlabLower |-> get_config_field(fields, "config_unit_slab_lower", "0"),
        unitSlabUpper |-> get_config_field(fields, "config_unit_slab_upper", "999999"),
        brandSupport |-> get_config_field(fields, "config_brand_support", "Not specified"),
        maxSupportValue |-> get_config_field(fields, "config_max_support_value", "No Cap"),
        bestBetQuantity |-> Get(fields, "best_bet", "N/A")]]

\* ConfigGenerator._gen_BUY_SIDE_PDC
gen_BUY_SIDE_PDC(fields) ==
    [config_type |-> "BS-PDC",
     extraction_source |-> "LLM",
     fields |-> [
        ProductId |-> "Populate from FSN File",
        brandSupport |-> get_config_field(fields, "config_brand_support", "Not specified"),
        maxQuantity |-> get_config_field(fields, "config_unit_slab_upper", "999999"),
        maxSupportValue |-> get_config_field(fields, "config_max_support_value", "No Cap")]]

\* ConfigGenerator._gen_SELL_SIDE_CP
gen_SELL_SIDE_CP(fields) ==
    [config_type |-> "SS-CP",
     extraction_source |-> "LLM",
     fields |-> [
        ProductId |-> "Populate from FSN File",
        brandSupport |-> get_config_field(fields, "config_brand_support", "Not specified"),
        vendorSplitRatio |-> get_config_field(fields, "config_vendor_split_ratio", "Not specified")]]

\* the SS-PUC generator with margin written only when config_margin is there
gen_SELL_SIDE_PUC_optional_margin(fields) ==
    [config_type |-> "SS-PUC",
     extraction_source |-> "LLM",
     fields |->
        (IF "config_margin" \in DOMAIN fields
         THEN [margin |-> get_config_field(fields, "config_margin", "Not specified")]
         ELSE EmptyDict) @@
        [ProductId |-> "Populate from FSN File",
         brandSupport |-> get_config_field(fields, "config_brand_support", "Not specified"),
         vendorSplitRatio |-> get_config_field(fields, "config_vendor_split_ratio", "Not specified"),
         unitSlabLower |-> get_config_field(fields, "config_unit_slab_lower", "0"),
         unitSlabUpper |-> get_config_field(fields, "config_unit_slab_upper", "999999"),
         maxSupportValue |-> get_config_field(fields, "config_max_support_value", "No Cap")]]

\* ConfigGenerator._gen_SELL_SIDE_PUC
gen_SELL_SIDE_PUC(fields) ==
    [config_type |-> "SS-PUC",
     extraction_source |-> "LLM",
     fields |-> [
        ProductId |-> "Populate from FSN File",
        brandSupport |-> get_config_field(fields, "config_brand_support", "Not specified"),
        vendorSplitRatio |-> get_config_field(fields, "config_vendor_split_ratio", "Not specified"),
        unitSlabLower |-> get_config_field(fields, "config_unit_slab_lower", "0"),
        unitSlabUpper |-> get_config_field(fields, "config_unit_slab_upper", "999999"),
        maxSupportValue |-> get_config_field(fields, "config_max_support_value", "No Cap"),
        margin |-> get_config_field(fields, "config_margin", "Not specified")]]

\* ConfigGenerator._gen_SELL_SIDE_PRX
gen_SELL_SIDE_PRX(fields) ==
    [config_type |-> "SS-PRX",
     extraction_source |-> "LLM",
     fields |-> [
        ProductId |-> "Populate from FSN File",
        incomingFsn |-> "Populate from Exchange FSN File",
        vendorSplitRatio |-> get_config_field(fields, "config_vendor_split_ratio", "Not specified"),
        exchangeSlabFrom |-> get_config_field(fields, "config_unit_slab_lower", "0"),
        exchangeSlabTo |-> get_config_field(fields, "config_unit_slab_upper", "999999"),
        agreedSupport |-> get_config_field(fields, "config_brand_support", "Not specified")]]

\* ConfigGenerator._gen_SELL_SIDE_SC
gen_SELL_SIDE_SC(fields) ==
    [config_type |-> "SS-SC",
     extraction_source |-> "LLM",
     fields |-> [
        ProductId |-> "Populate from FSN File",
        brandSupport |-> get_config_field(fields, "config_brand_support", "Not specified")]]

\* ConfigGenerator._gen_SELL_SIDE_LS
gen_SELL_SIDE_LS(fields) ==
    [config_type |-> "SS-LS",
     extraction_source |-> "LLM + Local Mapping",
     site_id |-> Get(fields, "site_id", "National"),
     fields |-> [
        ProductId |-> "Populate from FSN File",
        unitSlabLower |-> get_config_field(fields, "config_unit_slab_lower", "0"),
        unitSlabUpper |-> get_config_field(fields, "config_unit_slab_upper", "999999"),
        brandSupport |-> get_config_field(fields, "config_brand_support", "Not specified"),
        vendorSplitRatio |-> get_config_field(fields, "config_vendor_split_ratio", "Not specified"),
        margin |-> Get(fields, "margin",
                       get_config_field(fields, "config_margin", "Not specified")),
        dmrpType |-> Get(fields, "dmrpType", "Manual - From DMRP File"),
        dmrpValue |-> Get(fields, "dmrpValue", "Manual - From DMRP File"),
        maxSupportValue |->
            get_config_field(fields, "config_max_support_value",
                Get(fields, "min_actual_discount_or_agreed_claim", "N/A"))]]

\* the attributes of ConfigGenerator whose name starts with "_gen_",
\* as "_"-separated segments
GeneratorNames ==
    {<<"", "gen", "PDC">>,
     <<"", "gen", "BUY", "SIDE", "PERIODIC", "CLAIM">>,
     <<"", "gen", "BUY", "SIDE", "PDC">>,
     <<"", "gen", "SELL", "SIDE", "CP">>,
     <<"", "gen", "SELL", "SIDE", "PUC">>,
     <<"", "gen", "SELL", "SIDE", "PRX">>,
     <<"", "gen", "SELL", "SIDE", "SC">>,
     <<"", "gen", "SELL", "SIDE", "LS">>}

\* f"_gen_{scheme_type}_{scheme_subtype}"
generator_name(scheme_type, scheme_subtype) ==
    <<"", "gen">> \o scheme_type \o scheme_subtype

\* getattr(ConfigGenerator, name)(fields), for a name in GeneratorNames
call_generator(name, fields) ==
    CASE name = <<"", "gen", "PDC">> -> gen_PDC(fields)
      [] name = <<"", "gen", "BUY", "SIDE", "PERIODIC", "CLAIM">> ->
             gen_BUY_SIDE_PERIODIC_CLAIM(fields)
      [] name = <<"", "gen", "BUY", "SIDE", "PDC">> -> gen_BUY_SIDE_PDC(fields)
      [] name = <<"", "gen", "SELL", "SIDE", "CP">> -> gen_SELL_SIDE_CP(fields)
      [] name = <<"", "gen", "SELL", "SIDE", "PUC">> -> gen_SELL_SIDE_PUC(fields)
      [] name = <<"", "gen", "SELL", "SIDE", "PRX">> -> gen_SELL_SIDE_PRX(fields)
      [] name = <<"", "gen", "SELL", "SIDE", "SC">> -> gen_SELL_SIDE_SC(fields)
      [] name = <<"", "gen", "SELL", "SIDE", "LS">> -> gen_SELL_SIDE_LS(fields)

\* the standalone test keyed on the subtype instead of the type
is_standalone_pdc_by_subtype(scheme_type, scheme_subtype) ==
    scheme_subtype = <<"PDC">>

\* generate_config, line 35: PDC is handled as a standalone scheme type
is_standalone_pdc(scheme_type, scheme_subtype) == scheme_type = <<"PDC">>

\* generate_config, lines 34-66: the generator's result ("returned" tells
\* the two early returns from the results that go on to the product handling)
dispatch(scheme_type, scheme_subtype, fields) ==
    IF is_standalone_pdc(scheme_type, scheme_subtype)
    THEN [returned |-> FALSE, result |-> gen_PDC(fields)]
    ELSE IF generator_name(scheme_type, scheme_subtype) \in GeneratorNames
    THEN [returned |-> FALSE,
          result |-> call_generator(
                         generator_name(scheme_type, scheme_subtype), fields)]
    ELSE IF scheme_type = <<"BUY", "SIDE">>
    THEN [returned |-> FALSE,
          result |-> IF scheme_subtype = <<"PERIODIC", "CLAIM">>
                     THEN gen_BUY_SIDE_PERIODIC_CLAIM(fields)
                     ELSE IF scheme_subtype = <<"PDC">>
                     THEN gen_BUY_SIDE_PDC(fields)
                     ELSE EmptyDict]
    ELSE IF scheme_type = <<"SELL", "SIDE">>
    THEN [returned |-> FALSE,
          result |-> IF scheme_subtype = <<"CP">> THEN gen_SELL_SIDE_CP(fields)
                     ELSE IF scheme_subtype = <<"PUC">> THEN gen_SELL_SIDE_PUC(fields)
                     ELSE IF scheme_subtype = <<"PRX">> THEN gen_SELL_SIDE_PRX(fields)
                     ELSE IF scheme_subtype = <<"SC">> THEN gen_SELL_SIDE_SC(fields)
                     ELSE IF scheme_subtype = <<"LS">> THEN gen_SELL_SIDE_LS(fields)
                     ELSE EmptyDict]
    ELSE IF scheme_type = <<"OFC">>
    THEN [returned |-> TRUE,
          result |-> [info |-> "No FSN Config required for OFC"]]
    ELSE [returned |-> TRUE,
          result |-> [error |-> <<"Unknown scheme configuration for",
                                  scheme_type, scheme_subtype>>]]

\* the product list without base_fields.copy(): every element is the one
\* dict, which ends up holding the last identifier
product_list_shared(base_fields, fsns) ==
    [i \in 1..Len(fsns) |-> With(base_fields, "ProductId", fsns[Len(fsns)])]

\* the product list of lines 70-75
RECURSIVE product_list(_, _)
product_list(base_fields, fsns) ==
    IF fsns = <<>> THEN <<>>
    ELSE <<With(base_fields, "ProductId", Head(fsns))>>
             \o product_list(base_fields, Tail(fsns))

\* generate_config, lines 68-84
expand_products(config_result, resolve_fsns) ==
    IF "fields" \in DOMAIN config_result
    THEN IF Len(product_list(config_result["fields"], resolve_fsns)) > 1
         THEN Without(
                  With(config_result, "products",
                       product_list(config_result["fields"], resolve_fsns)),
                  "fields")
         ELSE With(config_result, "fields",
                   With(config_result["fields"], "ProductId", resolve_fsns[1]))
    ELSE config_result

\* generate_config with "PDC" as the default of a missing scheme_type
generate_config_default_pdc(fields, enrichment_data) ==
    LET scheme_type == Get(fields, "scheme_type", <<"PDC">>)
        scheme_subtype == Get(fields, "scheme_subtype", <<"">>)
        merged == IF DOMAIN enrichment_data # {}
                  THEN enrichment_data @@ fields
                  ELSE fields
        resolve_fsns == IF Get(merged, "resolved_fsns", <<>>) = <<>>
                        THEN <<"Populate from FSN File">>
                        ELSE merged["resolved_fsns"]
        d == dispatch(scheme_type, scheme_subtype, merged)
    IN  IF d.returned THEN d.result
        ELSE expand_products(d.result, resolve_fsns)

\* generate_config merging {**enrichment_data, **fields}: the bag wins
generate_config_bag_wins(fields, enrichment_data) ==
    LET scheme_type == Get(fields, "scheme_type", <<"">>)
        scheme_subtype == Get(fields, "scheme_subtype", <<"">>)
        merged == IF DOMAIN enrichment_data # {}
                  THEN fields @@ enrichment_data
                  ELSE fields
        resolve_fsns == IF Get(merged, "resolved_fsns", <<>>) = <<>>
                        THEN <<"Populate from FSN File">>
                        ELSE merged["resolved_fsns"]
        d == dispatch(scheme_type, scheme_subtype, merged)
    IN  IF d.returned THEN d.result
        ELSE expand_products(d.result, resolve_fsns)

\* ConfigGenerator.generate_config
generate_config(fields, enrichment_data) ==
    LET scheme_type == Get(fields, "scheme_type", <<"">>)
        scheme_subtype == Get(fields, "scheme_subtype", <<"">>)
        merged == IF DOMAIN enrichment_data # {}
                  THEN enrichment_data @@ fields
                  ELSE fields
        resolve_fsns == IF Get(merged, "resolved_fsns", <<>>) = <<>>
                        THEN <<"Populate from FSN File">>
                        ELSE merged["resolved_fsns"]
        d == dispatch(scheme_type, scheme_subtype, merged)
    IN  IF d.returned THEN d.result
        ELSE expand_products(d.result, resolve_fsns)

-----------------------------------------------------------------------------
(* The arguments generate_config is called on *)

TypeValues ==
    {<<"">>, <<"PDC">>, <<"BUY", "SIDE">>, <<"SELL", "SIDE">>, <<"OFC">>,
     <<"ONE", "OFF">>, <<"BUY">>, <<"ZZZ">>}

SubtypeValues ==
    {<<"">>, <<"PERIODIC", "CLAIM">>, <<"PDC">>, <<"CP">>, <<"PUC">>,
     <<"PRX">>, <<"SC">>, <<"BOC">>, <<"LS">>, <<"N/A">>, <<"SIDE", "PDC">>,
     <<"ZZZ">>}

\* the dicts {} and {key: v} for v in values
Optional(key, values) == {EmptyDict} \cup {key :> v : v \in values}

\* the config_* entries of the bag: none, empty strings, values
ConfigEntries ==
    {EmptyDict,
     [config_unit_slab_upper |-> "", config_max_support_value |-> ""],
     [config_unit_slab_upper |-> "50", config_brand_support |-> "5%",
      config_margin |-> "3"],
     [config_unit_slab_lower |-> "10", config_max_support_value |-> "5000",
      config_vendor_split_ratio |-> "60:40"],
     [config_unit_slab_lower |-> "", config_max_support_value |-> "",
      min_actual_discount_or_agreed_claim |-> "250", best_bet |-> "40"],
     [config_margin |-> "3", margin |-> "2", dmrpType |-> "FLAT",
      site_id |-> "MH"]}

FieldBags ==
    {t @@ s @@ f @@ p @@ c :
        t \in Optional("scheme_type", TypeValues),
        s \in Optional("scheme_subtype", SubtypeValues),
        f \in Optional("resolved_fsns", SeqsUpTo({"FSN1", "FSN2"}, MaxFsns)),
        p \in Optional("price_drop_date", {"01/06/2024"}),
        c \in ConfigEntries}

\* enrichment_data: None or {} (the same branch), or a local mapping
Enrichments ==
    {EmptyDict,
     [resolved_fsns |-> <<"FSN3", "FSN4">>],
     [margin |-> "7", dmrpType |-> "PERCENT", dmrpValue |-> "12",
      site_id |-> "KA"],
     [margin |-> "", site_id |-> "TN", resolved_fsns |-> <<"FSN3">>],
     [price_drop_date |-> "02/02/2025"],
     [scheme_type |-> <<"PDC">>, scheme_subtype |-> <<"PDC">>]}

\* line 24 as fields.update(enrichment_data): the name stays bound to the
\* caller's dict
merged_fields_in_place(enrichment_data) == "fields"

\* line 24, `fields = {**fields, **enrichment_data}`: the object the local
\* name `fields` is bound to from there on, a new dict after a merge and the
\* caller's dict without one
merged_fields_object(enrichment_data) ==
    IF DOMAIN enrichment_data # {} THEN "merged" ELSE "fields"

\* the dict objects at the end of generate_config, by name: the two the
\* caller passed, the merged dict of line 24 and config_result.  The
\* generators build config_result and its `fields` from dict literals, and
\* lines 70-82 write to these and to copies of them only.
generate_config_objects(fields, enrichment_data) ==
    LET called == [fields |-> fields, enrichment_data |-> enrichment_data]
        scheme_type == Get(called["fields"], "scheme_type", <<"">>)
        scheme_subtype == Get(called["fields"], "scheme_subtype", <<"">>)
        name == merged_fields_object(called["enrichment_data"])
        merged == IF DOMAIN called["enrichment_data"] # {}
                  THEN With(called, name,
                            called["enrichment_data"] @@ called["fields"])
                  ELSE called
        resolve_fsns == IF Get(merged[name], "resolved_fsns", <<>>) = <<>>
                        THEN <<"Populate from FSN File">>
                        ELSE merged[name]["resolved_fsns"]
        d == dispatch(scheme_type, scheme_subtype, merged[name])
    IN  With(merged, "config_result",
             IF d.returned THEN d.result
             ELSE expand_products(d.result, resolve_fsns))

\* a call of generate_config returns
GenerateConfig ==
    /\ cfg_pc = "call"
    /\ cfg_result' = generate_config(cfg_fields, cfg_enrichment)
    /\ cfg_fields' = generate_config_objects(cfg_fields, cfg_enrichment)["fields"]
    /\ cfg_enrichment' =
           generate_config_objects(cfg_fields, cfg_enrichment)["enrichment_data"]
    /\ cfg_pc' = "done"
    /\ UNCHANGED <<cleanVars, clsVars, statsVars, tcVars, twoVars, repVars, exVars>>

ConfigInit ==
    /\ cfg_pc = "call"
    /\ cfg_fields \in FieldBags
    /\ cfg_enrichment \in Enrichments
    /\ cfg_result = EmptyDict
    /\ CleanerAt("idle", <<>>)
    /\ ClassifierIdle
    /\ StatsIdle
    /\ ContentCleanerIdle
    /\ InstancesIdle
    /\ FirstCall
    /\ ExtractorIdle

ConfigNext == GenerateConfig

ConfigSpec == ConfigInit /\ [][ConfigNext]_vars

-----------------------------------------------------------------------------
(* Properties of DeterministicContentCleaner.clean *)

\* the paragraphs of the (normalised) input text
InputParagraphs == segment_paragraphs(normalize_text(input))

\* C1: every paragraph of the input text that is a table or is protected
\* appears verbatim in the string clean returns.
C1_ProtectionInvariant ==
    pc = "done" =>
        \A i \in 1..Len(InputParagraphs) :
            (is_table(InputParagraphs[i]) \/ is_protected(InputParagraphs[i]))
                => IsInfix(InputParagraphs[i], output)

\* C2: after a run of clean on a fresh cleaner, retained + removed is the
\* number of non-empty paragraphs segmentation produced.
C2_AuditConservation ==
    pc = "done" =>
        audit_summary.retained + audit_summary.removed = Len(paragraphs)

\* a text without a disclaimer start marker and without a line that
\* starts with Cc:, From: or To:
NoiseFree(t) ==
    /\ first_matching(disclaimer_markers, t, 0) = 0
    /\ \A i \in 1..Len(split_lines(t)) :
           /\ ~is_cc_line(split_lines(t)[i])
           /\ ~is_from_to_line(split_lines(t)[i])

C9_DisclaimerLoopBounded ==
    [][pc = "disclaimer" =>
        /\ iteration <= 10
        /\ iteration' <= 10
        /\ pc' = "disclaimer" =>
              /\ iteration' = iteration + 1
              /\ audit_summary'.removed <= audit_summary.removed + 1
              /\ \E s \in Positions(text, Range(disclaimer_markers)) :
                     \E k \in s..Len(text) :
                         \/ text' = SubSeq(text, 1, s - 1)
                                        \o SubSeq(text, k + 1, Len(text))
                         \/ text' = SubSeq(text, 1, s - 1) \o <<"W">>
                                        \o SubSeq(text, k + 1, Len(text))
        /\ iteration = 10 => (pc' = "segment" /\ text' = text)
        /\ pc' \in {"disclaimer", "segment"}]_vars

\* the loop was left after its 10th pass with a start marker still in the text
C9_Witness ==
    /\ pc = "segment"
    /\ iteration = 10
    /\ first_matching(disclaimer_markers, text, 0) # 0

-----------------------------------------------------------------------------
(* Properties of SchemeClassifier.classify *)

\* C6: classify returns a member of the taxonomy of the data model, and
\* the empty string yields SELL_SIDE/PUC.
C6_ClassifyInTaxonomy ==
    cls_pc = "done" =>
        /\ \/ /\ cls_result.scheme_type = "BUY_SIDE"
              /\ cls_result.scheme_subtype \in {"PERIODIC_CLAIM", "PDC"}
           \/ /\ cls_result.scheme_type = "SELL_SIDE"
              /\ cls_result.scheme_subtype \in
                     {"CP", "PUC", "PRX", "SC", "BOC", "LS"}
           \/ /\ cls_result.scheme_type \in {"ONE_OFF", "OFC"}
              /\ cls_result.scheme_subtype = "N/A"
           \/ /\ cls_result.scheme_type = "PDC"
              /\ cls_result.scheme_subtype = "PDC"
        /\ cls_text = <<>> =>
              /\ cls_result.scheme_type = "SELL_SIDE"
              /\ cls_result.scheme_subtype = "PUC"

\* the phrases of a text in reverse order
Reverse(s) == [i \in 1..Len(s) |-> s[Len(s) + 1 - i]]

-----------------------------------------------------------------------------
(* Properties of ConfigGenerator.generate_config *)

\* scheme_type and scheme_subtype of the bag generate_config was called on
BagType == Get(cfg_fields, "scheme_type", <<"">>)
BagSubtype == Get(cfg_fields, "scheme_subtype", <<"">>)

\* the bag with the enrichment data merged in
MergedBag == cfg_enrichment @@ cfg_fields

\* the pairs the generator has a schema for
HasGenerator ==
    \/ BagType = <<"PDC">>
    \/ BagType = <<"BUY", "SIDE">>
           /\ BagSubtype \in {<<"PERIODIC", "CLAIM">>, <<"PDC">>}
    \/ BagType = <<"SELL", "SIDE">>
           /\ BagSubtype \in {<<"CP">>, <<"PUC">>, <<"PRX">>, <<"SC">>, <<"LS">>}

\* the pairs of the taxonomy of the data model
InTaxonomy ==
    \/ HasGenerator
    \/ BagType = <<"SELL", "SIDE">> /\ BagSubtype = <<"BOC">>
    \/ BagType \in {<<"ONE", "OFF">>, <<"OFC">>}

\* C3: for a pair without a registered generator the result holds the key
\* `error` and neither `fields` nor `products`.
C3_UnregisteredGivesError ==
    (cfg_pc = "done" /\ ~InTaxonomy) =>
        /\ "error" \in DOMAIN cfg_result
        /\ "fields" \notin DOMAIN cfg_result
        /\ "products" \notin DOMAIN cfg_result

\* C4: for every pair of the taxonomy but ONE_OFF the result holds a
\* non-empty `fields` map or a non-empty `products` list; for ONE_OFF with
\* subtype N/A its only key is `info`.
C4_SchemaCompleteness ==
    cfg_pc = "done" =>
        /\ (InTaxonomy /\ BagType \notin {<<"ONE", "OFF">>, <<"OFC">>}) =>
              \/ /\ "fields" \in DOMAIN cfg_result
                 /\ DOMAIN cfg_result["fields"] # {}
              \/ /\ "products" \in DOMAIN cfg_result
                 /\ cfg_result["products"] # <<>>
        /\ (BagType \in {<<"ONE", "OFF">>, <<"OFC">>} /\ BagSubtype = <<"N/A">>) =>
              DOMAIN cfg_result = {"info"}


\* resolved_fsns of the merged bag (absent counts as empty)
BagFsns == Get(MergedBag, "resolved_fsns", <<>>)

\* what generate_config returns for the same arguments without resolved_fsns
ResultWithoutFsns ==
    generate_config(Without(cfg_fields, "resolved_fsns"),
                    Without(cfg_enrichment, "resolved_fsns"))

\* a result without its product block
TopLevel(result) == Without(Without(result, "fields"), "products")

\* C5: for a pair with a generator, n > 1 identifiers give `products`, one
\* element per identifier in order, equal but for ProductId, and no
\* `fields`; one identifier gives `fields` with that ProductId and no
\* `products`; none gives `fields` with the placeholder; the fields other
\* than ProductId and the other top-level keys are the same in all cases.
C5_MultiProductExpansion ==
    (cfg_pc = "done" /\ HasGenerator) =>
        /\ Len(BagFsns) > 1 =>
              /\ "products" \in DOMAIN cfg_result
              /\ "fields" \notin DOMAIN cfg_result
              /\ Len(cfg_result["products"]) = Len(BagFsns)
              /\ \A i \in 1..Len(BagFsns) :
                     /\ cfg_result["products"][i]["ProductId"] = BagFsns[i]
                     /\ Without(cfg_result["products"][i], "ProductId") =
                            Without(ResultWithoutFsns["fields"], "ProductId")
        /\ Len(BagFsns) <= 1 =>
              /\ "fields" \in DOMAIN cfg_result
              /\ "products" \notin DOMAIN cfg_result
              /\ cfg_result["fields"]["ProductId"] =
                     IF Len(BagFsns) = 1 THEN BagFsns[1]
                     ELSE "Populate from FSN File"
              /\ Without(cfg_result["fields"], "ProductId") =
                     Without(ResultWithoutFsns["fields"], "ProductId")
        /\ TopLevel(cfg_result) = TopLevel(ResultWithoutFsns)
        /\ DOMAIN TopLevel(cfg_result) \subseteq
               {"config_type", "extraction_source", "site_id"}

\* two different identifiers expanded into two products
C5_Witness ==
    /\ cfg_pc = "done"
    /\ HasGenerator
    /\ BagFsns = <<"FSN2", "FSN1">>
    /\ "products" \in DOMAIN cfg_result
    /\ Len(cfg_result["products"]) = 2
    /\ "site_id" \in DOMAIN cfg_result

\* the product blocks of a result: `fields`, or the elements of `products`
ProductBlocks(result) ==
    IF "fields" \in DOMAIN result THEN {result["fields"]}
    ELSE IF "products" \in DOMAIN result THEN Range(result["products"])
    ELSE {}

\* C10: with scheme_type "PDC" and any scheme_subtype the result is that of
\* the standalone PDC generator: config_type is "PDC", never "BS-PDC", and
\* priceDropDate is the price_drop_date of the bag.
C10_StandalonePdc ==
    (cfg_pc = "done" /\ BagType = <<"PDC">>) =>
        /\ "config_type" \in DOMAIN cfg_result
        /\ cfg_result["config_type"] = "PDC"
        /\ ProductBlocks(cfg_result) # {}
        /\ \A block \in ProductBlocks(cfg_result) :
               /\ "priceDropDate" \in DOMAIN block
               /\ "price_drop_date" \in DOMAIN MergedBag =>
                      block["priceDropDate"] = MergedBag["price_drop_date"]

\* scheme_type PDC with a BUY_SIDE subtype name and the date of scenario 3
C10_Witness ==
    /\ cfg_pc = "done"
    /\ BagType = <<"PDC">>
    /\ BagSubtype = <<"PERIODIC", "CLAIM">>
    /\ "price_drop_date" \in DOMAIN cfg_fields
    /\ "fields" \in DOMAIN cfg_result
    /\ cfg_result["fields"]["priceDropDate"] = "01/06/2024"


\* the schema code the claim gives each registered pair
SchemaCode ==
    CASE BagType = <<"BUY", "SIDE">> /\ BagSubtype = <<"PERIODIC", "CLAIM">> -> "BS-PC"
      [] BagType = <<"BUY", "SIDE">> /\ BagSubtype = <<"PDC">> -> "BS-PDC"
      [] BagType = <<"SELL", "SIDE">> /\ BagSubtype = <<"CP">> -> "SS-CP"
      [] BagType = <<"SELL", "SIDE">> /\ BagSubtype = <<"PUC">> -> "SS-PUC"
      [] BagType = <<"SELL", "SIDE">> /\ BagSubtype = <<"PRX">> -> "SS-PRX"
      [] BagType = <<"SELL", "SIDE">> /\ BagSubtype = <<"SC">> -> "SS-SC"
      [] BagType = <<"SELL", "SIDE">> /\ BagSubtype = <<"LS">> -> "SS-LS"
      [] OTHER -> "none"

\* ProductId plus the distinguishing fields of the schema table, SS-LS
\* without the three fields the table adds to those of SS-PUC
TableFields(code) ==
    CASE code = "BS-PC" -> {"ProductId", "unitSlabLower", "unitSlabUpper",
                            "brandSupport", "maxSupportValue", "bestBetQuantity"}
      [] code = "BS-PDC" -> {"ProductId", "brandSupport", "maxQuantity",
                             "maxSupportValue"}
      [] code = "SS-CP" -> {"ProductId", "brandSupport", "vendorSplitRatio"}
      [] code \in {"SS-PUC", "SS-LS"} ->
             {"ProductId", "brandSupport", "vendorSplitRatio", "unitSlabLower",
              "unitSlabUpper", "maxSupportValue", "margin"}
      [] code = "SS-PRX" -> {"ProductId", "incomingFsn", "vendorSplitRatio",
                             "exchangeSlabFrom", "exchangeSlabTo", "agreedSupport"}
      [] code = "SS-SC" -> {"ProductId", "brandSupport"}

\* C11 as stated: a registered pair gets its schema code, and the keys of
\* `fields` are those of the schema table whatever the bag holds, for SS-LS
\* the keys of SS-PUC plus dmrpType, dmrpValue and site_id.
C11_FixedFieldSet ==
    (cfg_pc = "done" /\ SchemaCode # "none") =>
        /\ "config_type" \in DOMAIN cfg_result
        /\ cfg_result["config_type"] = SchemaCode
        /\ ProductBlocks(cfg_result) # {}
        /\ \A block \in ProductBlocks(cfg_result) :
               DOMAIN block =
                   TableFields(SchemaCode) \cup
                       (IF SchemaCode = "SS-LS"
                        THEN {"dmrpType", "dmrpValue", "site_id"} ELSE {})

\* C11 amended: as stated, but for SS-LS the keys of `fields` are those of
\* SS-PUC plus dmrpType and dmrpValue, and site_id is a key of the result
\* itself, next to config_type.
C11_FixedFieldSetSiteIdOnTop ==
    (cfg_pc = "done" /\ SchemaCode # "none") =>
        /\ "config_type" \in DOMAIN cfg_result
        /\ cfg_result["config_type"] = SchemaCode
        /\ ProductBlocks(cfg_result) # {}
        /\ \A block \in ProductBlocks(cfg_result) :
               DOMAIN block =
                   TableFields(SchemaCode) \cup
                       (IF SchemaCode = "SS-LS"
                        THEN {"dmrpType", "dmrpValue"} ELSE {})
        /\ "site_id" \in DOMAIN cfg_result <=> SchemaCode = "SS-LS"

\* SELL_SIDE/PUC generated from a bag without any config_* entry
C11_Witness ==
    /\ cfg_pc = "done"
    /\ SchemaCode = "SS-PUC"
    /\ DOMAIN MergedBag \subseteq {"scheme_type", "scheme_subtype"}
    /\ "fields" \in DOMAIN cfg_result
    /\ "margin" \in DOMAIN cfg_result["fields"]

\* the value generate_config gives key `k` of a block whose source is the
\* bag's `config_key`, with `default` when that is absent or empty
FromConfig(block, k, config_key, default) ==
    k \in DOMAIN block =>
        block[k] = IF Get(MergedBag, config_key, "") # ""
                   THEN MergedBag[config_key] ELSE default

\* C12 as stated: the lower slab bound defaults to "0", the upper one to
\* "999999" and maxSupportValue to "No Cap" in every schema, and a non-empty
\* config_* value of the bag is taken instead.
C12_Defaults ==
    cfg_pc = "done" =>
        \A block \in ProductBlocks(cfg_result) :
            /\ FromConfig(block, "unitSlabLower", "config_unit_slab_lower", "0")
            /\ FromConfig(block, "exchangeSlabFrom", "config_unit_slab_lower", "0")
            /\ FromConfig(block, "unitSlabUpper", "config_unit_slab_upper", "999999")
            /\ FromConfig(block, "maxQuantity", "config_unit_slab_upper", "999999")
            /\ FromConfig(block, "exchangeSlabTo", "config_unit_slab_upper", "999999")
            /\ FromConfig(block, "maxSupportValue", "config_max_support_value",
                          "No Cap")

\* C12 amended: as stated, but in SS-LS maxSupportValue defaults to the
\* bag's min_actual_discount_or_agreed_claim, and to "N/A" without it.
C12_DefaultsButLifestyleCap ==
    cfg_pc = "done" =>
        \A block \in ProductBlocks(cfg_result) :
            /\ FromConfig(block, "unitSlabLower", "config_unit_slab_lower", "0")
            /\ FromConfig(block, "exchangeSlabFrom", "config_unit_slab_lower", "0")
            /\ FromConfig(block, "unitSlabUpper", "config_unit_slab_upper", "999999")
            /\ FromConfig(block, "maxQuantity", "config_unit_slab_upper", "999999")
            /\ FromConfig(block, "exchangeSlabTo", "config_unit_slab_upper", "999999")
            /\ FromConfig(block, "maxSupportValue", "config_max_support_value",
                          IF cfg_result["config_type"] = "SS-LS"
                          THEN Get(MergedBag, "min_actual_discount_or_agreed_claim",
                                   "N/A")
                          ELSE "No Cap")

\* an SS-PUC block from a bag with empty config_* entries: all three defaults
C12_Witness ==
    /\ cfg_pc = "done"
    /\ "config_unit_slab_lower" \in DOMAIN MergedBag
    /\ MergedBag["config_unit_slab_lower"] = ""
    /\ "fields" \in DOMAIN cfg_result
    /\ cfg_result["config_type"] = "SS-PUC"
    /\ cfg_result["fields"]["unitSlabLower"] = "0"
    /\ cfg_result["fields"]["unitSlabUpper"] = "999999"
    /\ cfg_result["fields"]["maxSupportValue"] = "No Cap"

-----------------------------------------------------------------------------
(* Both entry points, clean and generate_config, called on one document *)

EntryInit ==
    /\ \E txt \in SeqsUpTo(Alphabet, MaxEntryLen) : CleanerAt("start", txt)
    /\ ClassifierIdle
    /\ cfg_pc = "call"
    /\ cfg_fields \in {EmptyDict, [scheme_type |-> <<"OFC">>]}
    /\ cfg_enrichment \in Enrichments
    /\ cfg_result = EmptyDict
    /\ StatsIdle
    /\ ContentCleanerIdle
    /\ InstancesIdle
    /\ FirstCall
    /\ ExtractorIdle

EntryNext ==
    \/ Normalize
    \/ PreprocessCc
    \/ PreprocessFromTo
    \/ DisclaimerPass
    \/ DisclaimerExit
    \/ Segment
    \/ ClassifyParagraphs
    \/ CleanCcFooter
    \/ CleanDisclaimer
    \/ Combine
    \/ GenerateConfig

EntrySpec == EntryInit /\ [][EntryNext]_vars

\* C13: clean of the empty string returns the empty string with every
\* audit counter as it was, clean of a text of which nothing is left to
\* segment returns the empty string, generate_config of the empty bag
\* returns a dict with the one key `error` or `info`, and neither call
\* stops before it returns.
C13_EmptyInput ==
    /\ (pc = "done" /\ input = <<>>) =>
           /\ output = <<>>
           /\ audit_summary = NoAudit
           /\ cc_stats = NoCcStats
           /\ disclaimer_stats = NoDisclaimerStats
    /\ (pc = "done" /\ segment_paragraphs(text) = <<>>) => output = <<>>
    /\ (cfg_pc = "done" /\ cfg_fields = EmptyDict) =>
           DOMAIN cfg_result \in {{"error"}, {"info"}}
    /\ pc # "done" => ENABLED Next
    /\ cfg_pc = "call" => ENABLED GenerateConfig

\* both calls returned, clean on the empty string and generate_config on
\* the empty bag
C13_Witness ==
    /\ pc = "done"
    /\ input = <<>>
    /\ output = <<>>
    /\ cfg_pc = "done"
    /\ cfg_fields = EmptyDict
    /\ "error" \in DOMAIN cfg_result

\* clean on "From:", of which the address-block removal leaves nothing
C13_WitnessNoParagraphs ==
    /\ pc = "done"
    /\ input = <<"FR">>
    /\ paragraphs = <<>>
    /\ audit_summary.removed = 1
    /\ output = <<>>

-----------------------------------------------------------------------------
(* DeterministicContentCleaner.get_cleaning_stats *)

(***************************************************************************)
(* reduction_percent is a float rounded to two decimals; the model holds   *)
(* it as an integer number of hundredths of a percent (66.67 is 6667).     *)
(* round() takes the nearest hundredth of the double it is given.  Where   *)
(* the exact quotient lies half way between two hundredths the double may  *)
(* lie on either side of it (58.125 of 93/160 becomes 58.13, 3.125 of 1/32 *)
(* becomes 3.12), so both neighbours are outcomes of the model.            *)
(***************************************************************************)

\* longest argument of get_cleaning_stats enumerated over Alphabet
MaxStatsLen == 1

\* len(s) if s else 0
length_or_zero(s) == IF s = None \/ s = <<>> THEN 0 ELSE CharLen(s)

\* round(reduction / orig_len * 100, 2) rounding towards minus infinity
reduction_percent_truncated(reduction, orig_len) ==
    IF orig_len > 0 THEN {(reduction * 10000) \div orig_len} ELSE {0}

\* round((reduction / orig_len * 100), 2) if orig_len > 0 else 0
reduction_percent(reduction, orig_len) ==
    IF orig_len > 0
    THEN LET n == reduction * 10000
             q == n \div orig_len
             r == n % orig_len
         IN  IF 2 * r < orig_len THEN {q}
             ELSE IF 2 * r > orig_len THEN {q + 1}
             ELSE {q, q + 1}
    ELSE {0}

\* the dicts a call may return
get_cleaning_stats(original, cleaned) ==
    LET orig_len == length_or_zero(original)
        clean_len == length_or_zero(cleaned)
        reduction == orig_len - clean_len
    IN  {[original_length |-> orig_len,
          cleaned_length |-> clean_len,
          reduction_chars |-> reduction,
          reduction_percent |-> p] : p \in reduction_percent(reduction, orig_len)}

\* the arguments: None, the short texts and the scenario texts
StatsTexts == {None} \cup SeqsUpTo(Alphabet, MaxStatsLen) \cup ScenarioTexts

\* a call of get_cleaning_stats returns
GetCleaningStats ==
    /\ stats_pc = "call"
    /\ stats_result' \in get_cleaning_stats(stats_original, stats_cleaned)
    /\ stats_pc' = "done"
    /\ UNCHANGED <<stats_original, stats_cleaned, cleanVars, clsVars, cfgVars, tcVars, twoVars, repVars, exVars>>

StatsInit ==
    /\ stats_pc = "call"
    /\ stats_original \in StatsTexts
    /\ stats_cleaned \in StatsTexts
    /\ stats_result = EmptyDict
    /\ CleanerAt("idle", <<>>)
    /\ ClassifierIdle
    /\ GeneratorIdle
    /\ ContentCleanerIdle
    /\ InstancesIdle
    /\ FirstCall
    /\ ExtractorIdle

StatsNext == GetCleaningStats

StatsSpec == StatsInit /\ [][StatsNext]_vars

\* C14: get_cleaning_stats returns the two character counts, their
\* difference as reduction_chars, and as reduction_percent the hundredth of
\* a percent nearest to 100 * reduction_chars / original_length; when the
\* original is empty or None the percentage is 0 whatever `cleaned` is, and
\* the call returns for every pair of arguments.
C14_CleaningStats ==
    /\ stats_pc = "call" => ENABLED GetCleaningStats
    /\ stats_pc = "done" =>
         LET r == stats_result
         IN  /\ DOMAIN r = {"original_length", "cleaned_length",
                            "reduction_chars", "reduction_percent"}
             /\ stats_original # None => r.original_length = CharLen(stats_original)
             /\ stats_cleaned # None => r.cleaned_length = CharLen(stats_cleaned)
             /\ r.reduction_chars = r.original_length - r.cleaned_length
             /\ r.original_length > 0 =>
                  LET miss == r.reduction_percent * r.original_length
                                - 10000 * r.reduction_chars
                  IN  /\ 2 * miss <= r.original_length
                      /\ 2 * miss >= 0 - r.original_length
             /\ stats_original \in {None, <<>>} =>
                  r.original_length = 0 /\ r.reduction_percent = 0

\* an empty original with a cleaned text that is not empty: 0 percent
C14_Witness ==
    /\ stats_pc = "done"
    /\ stats_original = <<>>
    /\ stats_cleaned = <<"W">>
    /\ stats_result.reduction_chars = 0 - 3
    /\ stats_result.reduction_percent = 0

\* 3 characters cleaned to 1: 66.67 percent
C14_WitnessRounded ==
    /\ stats_pc = "done"
    /\ stats_original = <<"W">>
    /\ stats_cleaned = <<"NL">>
    /\ stats_result.reduction_percent = 6667

-----------------------------------------------------------------------------
(* The filters and the protected blocks *)

\* the paragraphs of t that are tables or protected
ProtectedParagraphsOf(t) ==
    SelectSeq(segment_paragraphs(t), LAMBDA p : classify_paragraph(p) # "cleanable")

\* a pass of the disclaimer block removal leaves every table or protected
\* paragraph of the text in the text
BlockRemovalSparesProtected ==
    (pc = "disclaimer" /\ text' # text) =>
        \A i \in 1..Len(ProtectedParagraphsOf(text)) :
            ProtectedParagraphsOf(text)[i] \in Range(segment_paragraphs(text'))

\* the text handed to the header/footer filter and to the paragraph-level
\* disclaimer filter holds cleanable paragraphs only, and the filters leave
\* the protected paragraphs as they are
ParagraphFiltersSeeOnlyCleanable ==
    pc \in {"cc_footer", "disclaimer_filter"} =>
        /\ ProtectedParagraphsOf(cleanable_text) = <<>>
        /\ protected_paragraphs' = protected_paragraphs

\* C15: no filter is handed or removes content of a table or protected
\* block: neither the disclaimer block removal nor the header/footer filter
\* nor the paragraph-level disclaimer filter.
C15_FiltersSeeOnlyCleanable ==
    [][BlockRemovalSparesProtected /\ ParagraphFiltersSeeOnlyCleanable]_vars

\* the part of C15 on the two paragraph-level filters alone
C15_ParagraphFiltersOnly == [][ParagraphFiltersSeeOnlyCleanable]_vars

\* a pass that finds a start marker with no end marker behind it leaves the
\* text as it is
NoEndMarkerRemovesNothing ==
    LET start == first_matching(disclaimer_markers, text, 0)
    IN  (/\ pc = "disclaimer"
         /\ start # 0
         /\ first_matching(end_markers, text, start) = 0) => text' = text

\* C16: when the disclaimer block removal finds a start marker and no end
\* marker occurs behind it in the text, it removes nothing for that marker.
C16_NoEndMarkerNoRemoval == [][NoEndMarkerRemovesNothing]_vars

-----------------------------------------------------------------------------
(* The line scanners that run before segmentation *)

\* the lines of the text handed to _preprocess_cc_removal
CcLines == split_lines(normalize_text(input))

\* line i continues an open Cc block
CcContinuation(i) == has_email(CcLines[i]) \/ ends_with_separator(CcLines[i])

\* line i is a Cc line, or follows a Cc line with nothing between them but
\* Cc lines and continuation lines, and is a continuation line itself
CcDropped(i) ==
    \E j \in 1..i :
        /\ is_cc_line(CcLines[j])
        /\ \A k \in (j + 1)..i : is_cc_line(CcLines[k]) \/ CcContinuation(k)

\* the lines the two-state scanner keeps, in order
CcKept == SelectSeq([i \in 1..Len(CcLines) |-> i], LAMBDA i : ~CcDropped(i))

\* C17: _preprocess_cc_removal drops every Cc line and, behind it, the
\* lines that hold an email address or end in ',' or ';' up to the first
\* line that does neither, and keeps every other line unchanged and in
\* order; clean of "Cc: a@x.com, a@x.com" followed by a greeting line
\* returns the greeting line.
C17_CcLineScanner ==
    /\ pc = "from_to" =>
           text = Join([n \in 1..Len(CcKept) |-> CcLines[CcKept[n]]], <<"NL">>)
    /\ (pc = "done" /\ input = <<"CC", "EM", "COMMA", "EM", "NL",
                                 "W", "COMMA", "W", "K", "DOT">>) =>
           output = <<"W", "COMMA", "W", "K", "DOT">>

\* a Cc line, a continuation line, the line that closes the block and a
\* line behind it: the first two are dropped
C17_Witness ==
    /\ pc = "from_to"
    /\ input = <<"CC", "EM", "COMMA", "NL", "EM", "NL", "W", "K">>
    /\ text = <<"W", "K">>

\* the scenario of the Cc line and the greeting
C17_WitnessScenario ==
    /\ pc = "done"
    /\ input = <<"CC", "EM", "COMMA", "EM", "NL", "W", "COMMA", "W", "K", "DOT">>
    /\ output = <<"W", "COMMA", "W", "K", "DOT">>

\* the lines of the text handed to _preprocess_from_to_removal
FromToLines == split_lines(text)

\* line i continues an open address block
FromToContinuation(i) ==
    /\ FromToLines[i] # <<>>
    /\ \/ has_email(FromToLines[i])
       \/ "ANG" \in Range(FromToLines[i])
       \/ ends_with_separator(FromToLines[i])

\* line i is a From/To header, or follows one with nothing between them but
\* headers and continuation lines, and is a continuation line itself
FromToDropped(i) ==
    \E j \in 1..i :
        /\ is_from_to_line(FromToLines[j])
        /\ \A k \in (j + 1)..i :
               is_from_to_line(FromToLines[k]) \/ FromToContinuation(k)

FromToKept ==
    SelectSeq([i \in 1..Len(FromToLines) |-> i], LAMBDA i : ~FromToDropped(i))

\* what the claim says of one run of _preprocess_from_to_removal
FromToScannerStep ==
    pc = "from_to" =>
        /\ text' = Join([n \in 1..Len(FromToKept) |-> FromToLines[FromToKept[n]]],
                        <<"NL">>)
        \* an empty line is never dropped, and a line that is not a header
        \* is dropped only right behind a dropped line
        /\ \A i \in 1..Len(FromToLines) :
               /\ FromToLines[i] = <<>> => ~FromToDropped(i)
               /\ (FromToDropped(i) /\ ~is_from_to_line(FromToLines[i])) =>
                      (i > 1 /\ FromToDropped(i - 1))

\* C18: _preprocess_from_to_removal drops every From/To header line and,
\* behind it, the non-empty lines that hold an email address, '<' or '>' or
\* end in ',' or ';'; an empty line and the first line that is no
\* continuation close the block and are kept; no other line is dropped.
C18_FromToLineScanner == [][FromToScannerStep]_vars

\* a header, a continuation line with '<', the empty line that closes the
\* block and two lines behind it
C18_Witness ==
    /\ pc = "disclaimer"
    /\ iteration = 0
    /\ input = <<"FR", "EM", "COMMA", "NL", "ANG", "NL", "NL", "K", "NL", "W">>
    /\ text = <<"NL", "K", "NL", "W">>

-----------------------------------------------------------------------------
(* The audit counters of the paragraph-level filters *)

\* a paragraph-level filter counts each paragraph it removes once in
\* `removed` and appends one entry to the audit log for it
RemovalsAreLogged ==
    pc \in {"cc_footer", "disclaimer_filter"} =>
        LET gone == Len(segment_paragraphs(cleanable_text))
                      - Len(segment_paragraphs(cleanable_text'))
        IN  /\ audit_summary'.removed = audit_summary.removed + gone
            /\ Len(audit_summary'.audit_log) = Len(audit_summary.audit_log) + gone

\* at the end of the run the audit log has one entry for each removal, and
\* `retained` counts the protected paragraphs and the cleanable paragraphs
\* that survived both filters, each once
SurvivorsAreRetained ==
    (pc = "combine" /\ pc' = "done") =>
        /\ Len(audit_summary'.audit_log) = audit_summary'.removed
        /\ audit_summary'.retained =
               Len(protected_paragraphs) + Len(segment_paragraphs(cleanable_text))

\* C19: while the cleanable paragraphs are filtered every removal adds one
\* to `removed` and one AuditEntry to the audit log, every paragraph that
\* survives all filters adds one to `retained`; after the run the audit log
\* is as long as the number of removals and no paragraph is counted both
\* as retained and as removed.
C19_RemovalsLoggedOnce == [][RemovalsAreLogged /\ SurvivorsAreRetained]_vars

\* a paragraph-level filter counts each paragraph it removes once
RemovalsAreCounted ==
    pc \in {"cc_footer", "disclaimer_filter"} =>
        audit_summary'.removed - audit_summary.removed
            = Len(segment_paragraphs(cleanable_text))
                - Len(segment_paragraphs(cleanable_text'))

\* the part of C19 on the counter `removed` alone
C19_RemovedCounted == [][RemovalsAreCounted]_vars

-----------------------------------------------------------------------------
(* The order of the paragraphs clean returns *)

\* the positions in `paragraphs` of the tables and protected paragraphs
ProtectedIndices ==
    SelectSeq([i \in 1..Len(paragraphs) |-> i],
              LAMBDA i : is_table(paragraphs[i]) \/ is_protected(paragraphs[i]))

\* the positions in `paragraphs` of the cleanable paragraphs no filter removes
SurvivorIndices ==
    SelectSeq([i \in 1..Len(paragraphs) |-> i],
              LAMBDA i : /\ ~is_table(paragraphs[i])
                         /\ ~is_protected(paragraphs[i])
                         /\ ~is_header(paragraphs[i])
                         /\ ~is_footer(paragraphs[i])
                         /\ ~is_disclaimer(paragraphs[i]))

\* the paragraphs of the returned text
OutputParagraphs == IF output = <<>> THEN <<>> ELSE split_blank_literal(output)

\* C20: the text clean returns is the table and protected paragraphs in the
\* order segmentation found them, then the cleanable paragraphs that
\* survive the filters in that order, joined by blank lines: every
\* paragraph of the output is one of the segmented paragraphs, each
\* segmented paragraph is put out at most once, and no cleanable paragraph
\* stands before a protected one.
C20_ProtectedThenCleanable ==
    (pc = "done" /\ paragraphs # <<>>) =>
        LET order == ProtectedIndices \o SurvivorIndices
        IN  /\ OutputParagraphs = [n \in 1..Len(order) |-> paragraphs[order[n]]]
            /\ output = Join(OutputParagraphs, <<"NL", "NL">>)
            /\ \A m, n \in 1..Len(order) : m # n => order[m] # order[n]
            /\ \A m, n \in 1..Len(OutputParagraphs) :
                   (/\ classify_paragraph(OutputParagraphs[m]) = "cleanable"
                    /\ classify_paragraph(OutputParagraphs[n]) # "cleanable") => n < m

\* a cleanable paragraph in front of a protected one in the input, a
\* disclaimer paragraph between them and a second protected one at the end
C20_Witness ==
    /\ pc = "done"
    /\ paragraphs = <<<<"W">>, <<"K">>, <<"W">>, <<"D">>, <<"K">>>>
    /\ output = <<"K", "NL", "NL", "K", "NL", "NL", "W", "NL", "NL", "W">>

-----------------------------------------------------------------------------
(* The classification of the segmented paragraphs *)

\* how many paragraphs of ps satisfy the test at the given positions
TablesIn(ps) == Cardinality({i \in 1..Len(ps) : is_table(ps[i])})

ProtectedOnlyIn(ps) ==
    Cardinality({i \in 1..Len(ps) : ~is_table(ps[i]) /\ is_protected(ps[i])})

\* step 4 puts every paragraph in one of the two lists, counts a table in
\* table_count only, a protected paragraph that is no table in
\* protected_count only, and each of them once in `retained`
ClassifiedOnce ==
    pc = "classify" =>
        /\ Len(protected_paragraphs') + Len(cleanable_paragraphs') = Len(paragraphs)
        /\ \A i \in 1..Len(paragraphs) :
               (paragraphs[i] \in Range(protected_paragraphs'))
                   # (paragraphs[i] \in Range(cleanable_paragraphs'))
        /\ audit_summary'.table_count
               = audit_summary.table_count + TablesIn(paragraphs)
        /\ audit_summary'.protected_count
               = audit_summary.protected_count + ProtectedOnlyIn(paragraphs)
        /\ audit_summary'.retained
               = audit_summary.retained + TablesIn(paragraphs)
                   + ProtectedOnlyIn(paragraphs)
        /\ audit_summary'.protected_count + audit_summary'.table_count
               <= audit_summary'.retained

\* the counters of the three classes change in step 4 only, and `retained`
\* never goes down afterwards
CountersKeptAfterwards ==
    pc # "classify" =>
        /\ audit_summary'.table_count = audit_summary.table_count
        /\ audit_summary'.protected_count = audit_summary.protected_count
        /\ audit_summary'.retained >= audit_summary.retained

\* C21: every segmented paragraph is classified once, as a table, else as
\* protected, else as cleanable; a paragraph that is a table and protected
\* counts in table_count only, every table or protected paragraph adds one
\* to `retained`, and protected_count + table_count <= retained after the
\* run.
C21_ClassifiedOnceTableFirst == [][ClassifiedOnce /\ CountersKeptAfterwards]_vars

\* a paragraph that is a table and holds a protected keyword, next to a
\* cleanable and a protected paragraph
C21_Witness ==
    /\ pc = "done"
    /\ paragraphs = <<<<"PIPE", "K", "NL", "PIPE">>, <<"W">>, <<"K">>>>
    /\ audit_summary.table_count = 1
    /\ audit_summary.protected_count = 1
    /\ audit_summary.retained = 3

-----------------------------------------------------------------------------
(* ContentCleaner (src/src/cleaners/text_cleaners.py) *)

(***************************************************************************)
(* The texts handed to ContentCleaner are sequences of the tokens below,   *)
(* each again one fixed string:                                            *)
(*                                                                         *)
(*   NL   "\n"                                                             *)
(*   SP   " "                                                              *)
(*   HT   7 times "\t"                                                     *)
(*   x48  48 times "x"                                                     *)
(*   X48  48 times "X"                                                     *)
(*   a    "a"                                                              *)
(*   A    "A"                                                              *)
(*   b7   "bbbbbbb"                                                        *)
(*   ZH3  three characters of the range U+4E00..U+9FFF                     *)
(*   mrp  "mrp"             matches IMPORTANT_PHRASES (r"mrp")             *)
(***************************************************************************)

\* the tokens str.split() and \s treat as whitespace
TcWhitespace == {"NL", "SP", "HT"}

\* len() of the string of each token
TcTokLen == "NL" :> 1 @@ "SP" :> 1 @@ "HT" :> 7 @@ "x48" :> 48 @@ "X48" :> 48 @@
            "a" :> 1 @@ "A" :> 1 @@ "b7" :> 7 @@ "ZH3" :> 3 @@ "mrp" :> 3

\* str.lower() of the string of each token
TcLower == "NL" :> "NL" @@ "SP" :> "SP" @@ "HT" :> "HT" @@ "x48" :> "x48" @@
           "X48" :> "x48" @@ "a" :> "a" @@ "A" :> "a" @@ "b7" :> "b7" @@
           "ZH3" :> "ZH3" @@ "mrp" :> "mrp"

\* len(CHINESE_PATTERN.findall(...)) of the string of each token
TcChinese == "NL" :> 0 @@ "SP" :> 0 @@ "HT" :> 0 @@ "x48" :> 0 @@ "X48" :> 0 @@
             "a" :> 0 @@ "A" :> 0 @@ "b7" :> 0 @@ "ZH3" :> 3 @@ "mrp" :> 0

\* the tokens one of the IMPORTANT_PHRASES matches
IMPORTANT_PHRASES == {"mrp"}

RECURSIVE TcSum(_, _)
\* the sum of a per-token count over a text
TcSum(t, count) == IF t = <<>> THEN 0 ELSE count[Head(t)] + TcSum(Tail(t), count)

\* re.split(r'\n\s*\n', text): the separator starts at the first newline
\* that is followed, behind whitespace only, by another newline, and ends
\* at the last such newline
RECURSIVE tc_split_blank(_)
tc_split_blank(t) ==
    LET closes(i) == {j \in (i + 1)..Len(t) :
                          /\ t[j] = "NL"
                          /\ \A k \in (i + 1)..(j - 1) : t[k] \in TcWhitespace}
        starts == {i \in 1..Len(t) : t[i] = "NL" /\ closes(i) # {}}
    IN  IF starts = {} THEN <<t>>
        ELSE LET i == Min(starts)
                 j == CHOOSE j \in closes(i) : \A n \in closes(i) : n <= j
             IN  <<SubSeq(t, 1, i - 1)>> \o tc_split_blank(SubSeq(t, j + 1, Len(t)))

\* chunk.strip() is empty
tc_blank(chunk) == Range(chunk) \subseteq TcWhitespace

\* " ".join(chunk.lower().split())
RECURSIVE tc_normalized(_)
tc_normalized(chunk) ==
    IF chunk = <<>> THEN <<>>
    ELSE IF Head(chunk) \in TcWhitespace
         THEN tc_normalized(Tail(chunk))
    ELSE IF tc_blank(Tail(chunk)) THEN <<TcLower[Head(chunk)]>>
    ELSE IF chunk[2] \in TcWhitespace
         THEN <<TcLower[Head(chunk)], "SP">> \o tc_normalized(Tail(chunk))
    ELSE <<TcLower[Head(chunk)]>> \o tc_normalized(Tail(chunk))

\* `len(normalized) < 50` with the bound included
too_short_to_deduplicate_inclusive(normalized) == TcSum(normalized, TcTokLen) <= 50

\* len(normalized) < 50
too_short_to_deduplicate(normalized) == TcSum(normalized, TcTokLen) < 50

\* the loop of _deduplicate_forwarded_content over the chunks, with
\* seen_content = seen: the chunks appended to cleaned_chunks
RECURSIVE deduplicate_scan(_, _)
deduplicate_scan(chunks, seen) ==
    IF chunks = <<>> THEN <<>>
    ELSE LET chunk == Head(chunks)
             normalized == tc_normalized(chunk)
         IN  IF tc_blank(chunk) THEN deduplicate_scan(Tail(chunks), seen)
             ELSE IF too_short_to_deduplicate(normalized)
             THEN <<chunk>> \o deduplicate_scan(Tail(chunks), seen)
             ELSE IF normalized \in seen
             THEN deduplicate_scan(Tail(chunks), seen)
             ELSE <<chunk>> \o deduplicate_scan(Tail(chunks), seen \cup {normalized})

\* _deduplicate_forwarded_content
deduplicate_forwarded_content(t) ==
    Join(deduplicate_scan(tc_split_blank(t), {}), <<"NL", "NL">>)

\* _is_important_content
is_important_content(t) == Range(t) \cap IMPORTANT_PHRASES # {}

\* len(text.replace(" ", "").replace("\n", ""))
total_chars(t) == TcSum(SelectSeq(t, LAMBDA tok : tok \notin {"SP", "NL"}), TcTokLen)

\* _is_chinese_block
is_chinese_block(t) ==
    /\ ~tc_blank(t)
    /\ total_chars(t) # 0
    /\ 10 * TcSum(t, TcChinese) > 3 * total_chars(t)

\* _remove_chinese_blocks
remove_chinese_blocks(t) ==
    Join(SelectSeq(tc_split_blank(t),
                   LAMBDA chunk : /\ ~tc_blank(chunk)
                                  /\ \/ is_important_content(chunk)
                                     \/ ~is_chinese_block(chunk)),
         <<"NL", "NL">>)

\* the tokens of the exhaustively enumerated texts
TcAlphabet == {"NL", "SP", "HT", "x48", "X48", "a", "A", "b7", "ZH3", "mrp"}

\* longest text enumerated exhaustively over TcAlphabet
MaxTcLen == 3

\* most chunks of a document built from TcChunks
MaxChunks == 3

\* chunks around the two thresholds: 49 and 50 normalised characters, the
\* same words in another case and with other whitespace, and Chinese
\* characters at, above and below three tenths of the characters
TcChunks == {
    <<"x48", "a">>,
    <<"x48", "SP", "a">>,
    <<"X48", "HT", "SP", "A">>,
    <<"x48", "NL", "a">>,
    <<"x48", "a", "a">>,
    <<"ZH3">>,
    <<"ZH3", "b7">>,
    <<"ZH3", "ZH3", "b7">>,
    <<"ZH3", "mrp">>,
    <<"ZH3", "HT", "a">>
}

\* documents with other separators between the chunks
TcScenarios == {
    <<"x48", "SP", "a", "NL", "SP", "HT", "NL", "NL", "X48", "SP", "A", "SP">>,
    <<"SP", "NL", "NL", "x48", "a", "a", "NL", "NL", "NL", "SP", "x48", "a", "a">>,
    <<"ZH3", "NL", "HT", "NL", "a", "NL", "ZH3", "NL", "NL", "ZH3", "b7", "SP", "SP">>
}

TcTexts ==
    SeqsUpTo(TcAlphabet, MaxTcLen)
        \cup {Join(cs, <<"NL", "NL">>) : cs \in SeqsUpTo(TcChunks, MaxChunks)}
        \cup TcScenarios

\* a call of _remove_chinese_blocks returns
RemoveChineseBlocks ==
    /\ tc_pc = "call"
    /\ tc_method = "_remove_chinese_blocks"
    /\ tc_result' = remove_chinese_blocks(tc_text)
    /\ tc_pc' = "done"
    /\ UNCHANGED <<tc_method, tc_text, cleanVars, clsVars, cfgVars, statsVars, twoVars, repVars, exVars>>

\* a call of _deduplicate_forwarded_content returns
DeduplicateForwardedContent ==
    /\ tc_pc = "call"
    /\ tc_method = "_deduplicate_forwarded_content"
    /\ tc_result' = deduplicate_forwarded_content(tc_text)
    /\ tc_pc' = "done"
    /\ UNCHANGED <<tc_method, tc_text, cleanVars, clsVars, cfgVars, statsVars, twoVars, repVars, exVars>>

ContentInit ==
    /\ tc_pc = "call"
    /\ tc_method \in {"_remove_chinese_blocks", "_deduplicate_forwarded_content"}
    /\ tc_text \in TcTexts
    /\ tc_result = <<>>
    /\ CleanerAt("idle", <<>>)
    /\ ClassifierIdle
    /\ GeneratorIdle
    /\ StatsIdle
    /\ InstancesIdle
    /\ FirstCall
    /\ ExtractorIdle

ContentNext ==
    \/ RemoveChineseBlocks
    \/ DeduplicateForwardedContent

ContentSpec == ContentInit /\ [][ContentNext]_vars

-----------------------------------------------------------------------------
(* Properties of ContentCleaner *)

\* the blocks of the document: the chunks between blank lines that are not
\* blank themselves
TcBlocks == SelectSeq(tc_split_blank(tc_text), LAMBDA chunk : ~tc_blank(chunk))

\* number of characters of the normalised form of block i
NormalizedLength(i) == TcSum(tc_normalized(TcBlocks[i]), TcTokLen)

\* block i is repeated: an earlier block has the same normalised form
RepeatsEarlierBlock(i) ==
    \E j \in 1..(i - 1) : tc_normalized(TcBlocks[j]) = tc_normalized(TcBlocks[i])

\* the positions of the blocks the claim says are kept
DedupKept ==
    SelectSeq([i \in 1..Len(TcBlocks) |-> i],
              LAMBDA i : NormalizedLength(i) < 50 \/ ~RepeatsEarlierBlock(i))

\* C22: _deduplicate_forwarded_content drops a block iff its normalised
\* form (lowercased, whitespace collapsed) has at least 50 characters and
\* an earlier block of the document has the same normalised form; first
\* occurrences and blocks below 50 normalised characters are kept, and the
\* kept blocks stand unchanged in their original order.
C22_DuplicateBlocksDropped ==
    (tc_pc = "done" /\ tc_method = "_deduplicate_forwarded_content") =>
        tc_result = Join([n \in 1..Len(DedupKept) |-> TcBlocks[DedupKept[n]]],
                         <<"NL", "NL">>)

\* a block of 50 normalised characters, a block of 49 and the first block
\* again in capitals and with other whitespace: the third block is dropped
C22_Witness ==
    /\ tc_pc = "done"
    /\ tc_method = "_deduplicate_forwarded_content"
    /\ tc_text = <<"x48", "SP", "a", "NL", "NL", "x48", "a", "NL", "NL",
                   "X48", "HT", "SP", "A">>
    /\ tc_result = <<"x48", "SP", "a", "NL", "NL", "x48", "a">>

\* a block of 49 normalised characters three times over: all are kept
C22_WitnessShortRepeated ==
    /\ tc_pc = "done"
    /\ tc_method = "_deduplicate_forwarded_content"
    /\ tc_text = <<"x48", "a", "NL", "NL", "x48", "a", "NL", "NL", "x48", "a">>
    /\ tc_result = tc_text

\* number of characters of a block that are no whitespace
NonWhitespaceChars(chunk) ==
    TcSum(SelectSeq(chunk, LAMBDA tok : tok \notin TcWhitespace), TcTokLen)

\* more than three tenths of the non-whitespace characters are Chinese
MostlyChinese(chunk) ==
    /\ NonWhitespaceChars(chunk) > 0
    /\ 10 * TcSum(chunk, TcChinese) > 3 * NonWhitespaceChars(chunk)

\* C23: _remove_chinese_blocks removes a block iff its Chinese characters
\* are more than 0.3 of its non-whitespace characters and it does not match
\* the whitelist of important phrases; a whitelisted block, a block at
\* exactly 0.3 and a block without non-whitespace characters are not
\* removed.
C23_ChineseBlocksRemoved ==
    (tc_pc = "done" /\ tc_method = "_remove_chinese_blocks") =>
        tc_result =
            Join(SelectSeq(TcBlocks,
                           LAMBDA chunk : is_important_content(chunk)
                                              \/ ~MostlyChinese(chunk)),
                 <<"NL", "NL">>)

\* the part of C23 that does not depend on what counts as whitespace: a
\* block that matches the whitelist is kept, and so is a block without
\* tabs whose Chinese characters are at most 0.3 of the others
C23_WhitelistWins ==
    (tc_pc = "done" /\ tc_method = "_remove_chinese_blocks") =>
        \A i \in 1..Len(TcBlocks) :
            (\/ is_important_content(TcBlocks[i])
             \/ ("HT" \notin Range(TcBlocks[i]) /\ ~MostlyChinese(TcBlocks[i])))
                => IsInfix(TcBlocks[i], tc_result)

-----------------------------------------------------------------------------
(* The predicates of the filters *)

\* the step in which _is_header and _is_footer are evaluated on every
\* cleanable paragraph, and the step in which _is_disclaimer is, leave the
\* statistics of CcFooterCleaner and of DisclaimerCleaner as they are
PredicatesLeaveStats ==
    pc \in {"cc_footer", "disclaimer_filter"} =>
        /\ cc_stats' = cc_stats
        /\ disclaimer_stats' = disclaimer_stats

\* C24: _is_header, _is_footer and _is_disclaimer are pure: evaluating
\* them on a block changes no state of the filter object, keyword_matches
\* included.
C24_PredicatesArePure == [][PredicatesLeaveStats]_vars

\* the part of C24 on CcFooterCleaner: _is_header and _is_footer leave its
\* statistics unchanged
HeaderFooterLeaveStats == pc = "cc_footer" => cc_stats' = cc_stats

C24_HeaderFooterPure == [][HeaderFooterLeaveStats]_vars

-----------------------------------------------------------------------------
(* Two cleaners side by side *)

(***************************************************************************)
(* A cleaner holds three dict objects: self.audit_summary and the stats    *)
(* of its CcFooterCleaner and of its DisclaimerCleaner.  `heap` maps the   *)
(* address of each dict to its value, and inst[i] holds the locals of the  *)
(* call of clean on cleaner i and the addresses of its three dicts.        *)
(***************************************************************************)

Instances == {1, 2}

\* the dicts every __init__ builds anew, reused by all instances
instance_refs_shared(i) ==
    [audit_summary |-> 1, cc_stats |-> 2, disclaimer_stats |-> 3]

\* the addresses of the dicts the __init__ of cleaner i creates
instance_refs(i) ==
    [audit_summary |-> 3 * (i - 1) + 1,
     cc_stats |-> 3 * (i - 1) + 2,
     disclaimer_stats |-> 3 * (i - 1) + 3]

\* the heap after the constructors
NewHeap ==
    [addr \in UNION {{instance_refs(i).audit_summary, instance_refs(i).cc_stats,
                      instance_refs(i).disclaimer_stats} : i \in Instances} |->
        IF \E i \in Instances : addr = instance_refs(i).audit_summary
        THEN NoAudit
        ELSE IF \E i \in Instances : addr = instance_refs(i).cc_stats
        THEN NoCcStats
        ELSE NoDisclaimerStats]

\* cleaner i about to clean `txt`
NewCleaner(i, txt) ==
    [pc |-> "start", input |-> txt, text |-> <<>>, iteration |-> 0,
     paragraphs |-> <<>>, protected_paragraphs |-> <<>>,
     cleanable_paragraphs |-> <<>>, cleanable_text |-> <<>>, output |-> <<>>,
     refs |-> instance_refs(i)]

\* the next step of clean on the cleaner with locals s, on heap h
cleaner_step(s, h) ==
    LET a == s.refs.audit_summary
        same(self) == [self |-> self, heap |-> h]
    IN  CASE s.pc = "start" ->
                 IF s.input = <<>>
                 THEN same([s EXCEPT !.pc = "done", !.output = <<>>])
                 ELSE same([s EXCEPT !.pc = "cc", !.text = normalize_text(s.input)])
          [] s.pc = "cc" ->
                 LET r == preprocess_cc_removal(s.text)
                 IN  [self |-> [s EXCEPT !.pc = "from_to", !.text = r.text],
                      heap |-> [h EXCEPT ![a].removed = @ + r.removed]]
          [] s.pc = "from_to" ->
                 LET r == preprocess_from_to_removal(s.text)
                 IN  [self |-> [s EXCEPT !.pc = "disclaimer", !.text = r.text,
                                         !.iteration = 0],
                      heap |-> [h EXCEPT ![a].removed = @ + r.removed]]
          [] s.pc = "disclaimer" ->
                 LET r == disclaimer_pass(s.text)
                 IN  IF loop_continues(s.iteration) /\ r.found
                     THEN [self |-> [s EXCEPT !.text = r.text,
                                              !.iteration = @ + 1],
                           heap |-> [h EXCEPT ![a].removed = @ + r.removed]]
                     ELSE same([s EXCEPT !.pc = "segment"])
          [] s.pc = "segment" ->
                 LET ps == segment_paragraphs(s.text)
                 IN  IF ps = <<>>
                     THEN same([s EXCEPT !.pc = "done", !.paragraphs = ps,
                                         !.output = <<>>])
                     ELSE same([s EXCEPT !.pc = "classify", !.paragraphs = ps])
          [] s.pc = "classify" ->
                 LET kind(p) == classify_paragraph(p)
                     tables == SelectSeq(s.paragraphs, LAMBDA p : kind(p) = "table")
                     prot == SelectSeq(s.paragraphs, LAMBDA p : kind(p) = "protected")
                     cleanable ==
                         SelectSeq(s.paragraphs, LAMBDA p : kind(p) = "cleanable")
                 IN  [self |-> [s EXCEPT
                          !.pc = "cc_footer",
                          !.protected_paragraphs =
                              SelectSeq(s.paragraphs,
                                        LAMBDA p : kind(p) # "cleanable"),
                          !.cleanable_paragraphs = cleanable,
                          !.cleanable_text = Join(cleanable, <<"NL", "NL">>)],
                      heap |-> [h EXCEPT
                          ![a].table_count = @ + Len(tables),
                          ![a].protected_count = @ + Len(prot),
                          ![a].retained = @ + Len(tables) + Len(prot)]]
          [] s.pc = "cc_footer" ->
                 LET r == clean_with_cc_footer(s.cleanable_text)
                 IN  [self |-> [s EXCEPT !.pc = "disclaimer_filter",
                                         !.cleanable_text = r.text],
                      heap |-> [h EXCEPT ![a].removed = @ + r.removed,
                                         ![a].retained = @ + r.retained]]
          [] s.pc = "disclaimer_filter" ->
                 LET r == clean_with_disclaimer(s.cleanable_text)
                     h1 == [h EXCEPT ![a].removed = @ + r.removed]
                 IN  [self |-> [s EXCEPT !.pc = "combine",
                                         !.cleanable_text = r.text],
                      heap |-> [h1 EXCEPT
                          ![s.refs.disclaimer_stats].keyword_matches =
                              @ \o r.matches]]
          [] s.pc = "combine" ->
                 [self |-> [s EXCEPT
                      !.pc = "done",
                      !.output = combine(s.protected_paragraphs, s.cleanable_text)],
                  heap |-> [h EXCEPT ![a].removed =
                      @ + h[s.refs.cc_stats].paragraphs_removed
                        + h[s.refs.disclaimer_stats].paragraphs_removed]]

\* clean run to its end with no other cleaner at work
RECURSIVE run_alone(_, _)
run_alone(s, h) ==
    IF s.pc = "done" THEN [self |-> s, heap |-> h]
    ELSE LET r == cleaner_step(s, h) IN run_alone(r.self, r.heap)

\* longest text of the first cleaner enumerated over Alphabet
MaxTwoLen == 1

\* documents that move every counter
TwoScenarios == {
    <<>>,
    <<"E1", "E3", "NL", "NL", "W">>,
    <<"PIPE", "K", "NL", "PIPE", "NL", "NL", "W", "NL", "NL", "K">>,
    <<"CC", "EM", "COMMA", "NL", "EM", "NL", "W", "K">>,
    <<"TAB", "NL", "TAB", "NL", "NL", "H">>,
    <<"E1", "V", "NL", "NL", "K", "E1", "V">>
}

\* one more step of clean on cleaner i
CleanStep(i) ==
    /\ inst[i].pc # "done"
    /\ LET r == cleaner_step(inst[i], heap)
       IN  /\ inst' = [inst EXCEPT ![i] = r.self]
           /\ heap' = r.heap
    /\ UNCHANGED <<cleanVars, clsVars, cfgVars, statsVars, tcVars, repVars, exVars>>

FirstCleans == CleanStep(1)

SecondCleans == CleanStep(2)

TwoInit ==
    /\ \E t1 \in SeqsUpTo(Alphabet, MaxTwoLen) \cup TwoScenarios, t2 \in TwoScenarios :
           inst = [i \in Instances |-> NewCleaner(i, IF i = 1 THEN t1 ELSE t2)]
    /\ heap = NewHeap
    /\ CleanerAt("idle", <<>>)
    /\ ClassifierIdle
    /\ GeneratorIdle
    /\ StatsIdle
    /\ ContentCleanerIdle
    /\ FirstCall
    /\ ExtractorIdle

TwoNext ==
    \/ FirstCleans
    \/ SecondCleans

TwoSpec == TwoInit /\ [][TwoNext]_vars

\* C25: when two cleaners each clean their own document, their steps
\* interleaved in any order, the text each returns and its audit counters
\* and statistics are those of the same cleaner run alone.
C25_InstancesIndependent ==
    \A i \in Instances :
        inst[i].pc = "done" =>
            LET alone == run_alone(NewCleaner(i, inst[i].input), NewHeap)
            IN  /\ inst[i].output = alone.self.output
                /\ inst[i].output = clean(inst[i].input)
                /\ \A k \in {"audit_summary", "cc_stats", "disclaimer_stats"} :
                       heap[inst[i].refs[k]] = alone.heap[inst[i].refs[k]]

\* both cleaners are done, each has removed and retained paragraphs, and
\* their counters differ
C25_Witness ==
    /\ inst[1].pc = "done"
    /\ inst[2].pc = "done"
    /\ inst[1].input = <<"E1", "E3", "NL", "NL", "W">>
    /\ inst[2].input = <<"PIPE", "K", "NL", "PIPE", "NL", "NL", "W", "NL", "NL", "K">>
    /\ heap[inst[1].refs.audit_summary].removed = 1
    /\ heap[inst[2].refs.audit_summary].table_count = 1
    /\ heap[inst[1].refs.disclaimer_stats].keyword_matches # <<>>
    /\ heap[inst[2].refs.disclaimer_stats].keyword_matches = <<>>

-----------------------------------------------------------------------------
(* Enrichment data *)

\* the value of `key` the generator works with: that of the enrichment map
\* when it has the key, else that of the bag, else `default`
EnrichedValue(key, default) ==
    IF key \in DOMAIN cfg_enrichment THEN cfg_enrichment[key]
    ELSE IF key \in DOMAIN cfg_fields THEN cfg_fields[key]
    ELSE default

\* the LLM's config_margin, "Not specified" when absent or empty
ConfigMargin ==
    IF EnrichedValue("config_margin", "") # ""
    THEN EnrichedValue("config_margin", "")
    ELSE "Not specified"

\* the ProductId values of a result, in order
ProductIds(result) ==
    IF "products" \in DOMAIN result
    THEN [i \in 1..Len(result["products"]) |-> result["products"][i]["ProductId"]]
    ELSE <<result["fields"]["ProductId"]>>

\* C26: for SELL_SIDE/LS the result carries margin, dmrpType, dmrpValue and
\* site_id of the enrichment map when it supplies them (margin before the
\* bag's config_margin), else those of the bag, else the fixed defaults; the
\* identifiers of the product blocks are resolved_fsns of the enrichment map
\* when it supplies them, else those of the bag.
C26_EnrichmentWins ==
    (cfg_pc = "done" /\ BagType = <<"SELL", "SIDE">> /\ BagSubtype = <<"LS">>) =>
        /\ cfg_result["config_type"] = "SS-LS"
        /\ cfg_result["site_id"] = EnrichedValue("site_id", "National")
        /\ ProductBlocks(cfg_result) # {}
        /\ \A block \in ProductBlocks(cfg_result) :
               /\ block["margin"] = EnrichedValue("margin", ConfigMargin)
               /\ block["dmrpType"] =
                      EnrichedValue("dmrpType", "Manual - From DMRP File")
               /\ block["dmrpValue"] =
                      EnrichedValue("dmrpValue", "Manual - From DMRP File")
        /\ ProductIds(cfg_result) =
               IF EnrichedValue("resolved_fsns", <<>>) = <<>>
               THEN <<"Populate from FSN File">>
               ELSE EnrichedValue("resolved_fsns", <<>>)

\* an SS-LS result whose margin, DMRP entries and site id are those of the
\* enrichment map although the bag has a margin, a config_margin, a DMRP
\* type and a site id of its own
C26_Witness ==
    /\ cfg_pc = "done"
    /\ BagType = <<"SELL", "SIDE">>
    /\ BagSubtype = <<"LS">>
    /\ Get(cfg_fields, "margin", "") = "2"
    /\ Get(cfg_fields, "config_margin", "") = "3"
    /\ Get(cfg_fields, "resolved_fsns", <<>>) = <<"FSN1", "FSN2">>
    /\ Get(cfg_enrichment, "margin", "") = "7"
    /\ cfg_result["site_id"] = "KA"
    /\ \A block \in Range(cfg_result["products"]) :
           block["margin"] = "7" /\ block["dmrpType"] = "PERCENT"

\* the enrichment map's single identifier replaces the two of the bag, and
\* its empty margin is the margin of the result
C26_WitnessFsns ==
    /\ cfg_pc = "done"
    /\ BagType = <<"SELL", "SIDE">>
    /\ BagSubtype = <<"LS">>
    /\ Get(cfg_fields, "resolved_fsns", <<>>) = <<"FSN1", "FSN2">>
    /\ Get(cfg_fields, "margin", "") = "2"
    /\ Get(cfg_enrichment, "resolved_fsns", <<>>) = <<"FSN3">>
    /\ "fields" \in DOMAIN cfg_result
    /\ cfg_result["fields"]["ProductId"] = "FSN3"
    /\ cfg_result["fields"]["margin"] = ""
    /\ cfg_result["fields"]["dmrpType"] = "FLAT"

\* without an enrichment map margin falls back to the bag's config_margin
\* and the site id to "National"
C26_WitnessAbsent ==
    /\ cfg_pc = "done"
    /\ BagType = <<"SELL", "SIDE">>
    /\ BagSubtype = <<"LS">>
    /\ cfg_enrichment = EmptyDict
    /\ "margin" \notin DOMAIN cfg_fields
    /\ "fields" \in DOMAIN cfg_result
    /\ cfg_result["fields"]["margin"] = "3"
    /\ cfg_result["site_id"] = "National"

-----------------------------------------------------------------------------
(* One cleaner, several documents *)

\* DeterministicContentCleaner.get_audit_summary
get_audit_summary(audit, cc, disclaimer) ==
    [removed |-> audit.removed,
     retained |-> audit.retained,
     protected |-> audit.protected_count,
     tables_protected |-> audit.table_count,
     audit_log |-> audit.audit_log,
     cc_blocks_removed |-> cc.cc_blocks_removed,
     headers_removed |-> cc.headers_removed,
     footers_removed |-> cc.footers_removed,
     disclaimers_removed |-> disclaimer.disclaimers_removed,
     disclaimer_blocks_removed |-> disclaimer.disclaimer_blocks_removed]

\* calls of clean on the one cleaner
MaxCalls == 3

\* a call of clean that starts from counters at zero
CleanAgainFromZero ==
    /\ pc = "done"
    /\ Len(calls) + 1 < MaxCalls
    /\ calls' = Append(calls, input)
    /\ \E txt \in TwoScenarios : input' = txt
    /\ pc' = "start"
    /\ text' = <<>>
    /\ iteration' = 0
    /\ paragraphs' = <<>>
    /\ protected_paragraphs' = <<>>
    /\ cleanable_paragraphs' = <<>>
    /\ cleanable_text' = <<>>
    /\ output' = <<>>
    /\ audit_summary' = NoAudit
    /\ UNCHANGED <<cc_stats, disclaimer_stats>>
    /\ UNCHANGED <<clsVars, cfgVars, statsVars, tcVars, twoVars, exVars>>

\* clean is called on the cleaner once more: the locals of the call are new,
\* self.audit_summary and the stats of the two filters are what they were
CleanAgain ==
    /\ pc = "done"
    /\ Len(calls) + 1 < MaxCalls
    /\ calls' = Append(calls, input)
    /\ \E txt \in TwoScenarios : input' = txt
    /\ pc' = "start"
    /\ text' = <<>>
    /\ iteration' = 0
    /\ paragraphs' = <<>>
    /\ protected_paragraphs' = <<>>
    /\ cleanable_paragraphs' = <<>>
    /\ cleanable_text' = <<>>
    /\ output' = <<>>
    /\ UNCHANGED <<audit_summary, cc_stats, disclaimer_stats>>
    /\ UNCHANGED <<clsVars, cfgVars, statsVars, tcVars, twoVars, exVars>>

RepeatInit ==
    /\ \E txt \in SeqsUpTo(Alphabet, MaxTwoLen) \cup TwoScenarios :
           CleanerAt("start", txt)
    /\ ClassifierIdle
    /\ GeneratorIdle
    /\ StatsIdle
    /\ ContentCleanerIdle
    /\ InstancesIdle
    /\ FirstCall
    /\ ExtractorIdle

RepeatNext ==
    \/ Normalize
    \/ PreprocessCc
    \/ PreprocessFromTo
    \/ DisclaimerPass
    \/ DisclaimerExit
    \/ Segment
    \/ ClassifyParagraphs
    \/ CleanCcFooter
    \/ CleanDisclaimer
    \/ Combine
    \/ CleanAgain

RepeatSpec == RepeatInit /\ [][RepeatNext]_vars

\* the audit counters and the key get_audit_summary reports each under
AuditCounters ==
    {<<"removed", "removed">>, <<"retained", "retained">>,
     <<"protected_count", "protected">>, <<"table_count", "tables_protected">>}

\* what a new cleaner counts for one document
CountedAlone(doc) == run_alone(NewCleaner(1, doc), NewHeap).heap[1]

\* the sum of a counter over documents, each cleaned by a new cleaner
RECURSIVE CountedOver(_, _)
CountedOver(docs, counter) ==
    IF docs = <<>> THEN 0
    ELSE CountedAlone(Head(docs))[counter] + CountedOver(Tail(docs), counter)

\* no step of the cleaner lowers a counter
CountersNeverDecrease ==
    \A c \in AuditCounters : audit_summary'[c[1]] >= audit_summary[c[1]]

\* when a call returns, get_audit_summary reports the totals over all
\* documents cleaned so far
TotalsOverAllCalls ==
    pc' = "done" =>
        \A c \in AuditCounters :
            get_audit_summary(audit_summary', cc_stats', disclaimer_stats')[c[2]]
                = CountedOver(Append(calls', input'), c[1])

\* C27: on one cleaner no step, and no new call of clean, lowers removed,
\* retained, protected_count or table_count, and after every call each
\* counter, as get_audit_summary reports it, is the sum over all documents
\* cleaned so far of what the call on that document added.
C27_CountersAccumulate == [][CountersNeverDecrease /\ TotalsOverAllCalls]_vars

\* after the third call the report holds the totals of three documents, more
\* than the last one alone
C27_Witness ==
    /\ pc = "done"
    /\ Len(calls) = 2
    /\ calls[1] = <<"E1", "E3", "NL", "NL", "W">>
    /\ calls[2] = <<"PIPE", "K", "NL", "PIPE", "NL", "NL", "W", "NL", "NL", "K">>
    /\ input = <<"PIPE", "K", "NL", "PIPE", "NL", "NL", "W", "NL", "NL", "K">>
    /\ get_audit_summary(audit_summary, cc_stats, disclaimer_stats).tables_protected = 2
    /\ get_audit_summary(audit_summary, cc_stats, disclaimer_stats).removed = 1
    /\ CountedAlone(input).table_count = 1
    /\ CountedAlone(input).removed = 0

-----------------------------------------------------------------------------
(* The arguments of generate_config *)

\* the enrichment map without a scheme_type and scheme_subtype of its own
EnrichmentWithoutTypes(enrichment_data) ==
    Without(Without(enrichment_data, "scheme_type"), "scheme_subtype")

\* the call leaves both dicts, resolved_fsns included, as they were
ArgumentsKept ==
    cfg_pc' = "done" =>
        /\ cfg_fields' = cfg_fields
        /\ cfg_enrichment' = cfg_enrichment

\* the generator is chosen by scheme_type and scheme_subtype of the bag:
\* those of the enrichment map change nothing, and an error names the bag's
DispatchOnOriginalBag ==
    cfg_pc' = "done" =>
        /\ cfg_result' =
               generate_config(cfg_fields, EnrichmentWithoutTypes(cfg_enrichment))
        /\ "error" \in DOMAIN cfg_result' =>
               cfg_result'["error"] =
                   <<"Unknown scheme configuration for",
                     Get(cfg_fields, "scheme_type", <<"">>),
                     Get(cfg_fields, "scheme_subtype", <<"">>)>>

\* C28: generate_config leaves both dicts it is called on, and the
\* resolved_fsns list in them, with the keys and values they had, whether it
\* returns a configuration, the OFC stub or an error; scheme_type and
\* scheme_subtype of the enrichment map have no part in the dispatch.
C28_ArgumentsUnchanged == [][ArgumentsKept /\ DispatchOnOriginalBag]_vars

\* a call with both dicts holding resolved_fsns that returned two product
\* blocks
C28_Witness ==
    /\ cfg_pc = "done"
    /\ Get(cfg_fields, "resolved_fsns", <<>>) = <<"FSN1">>
    /\ Get(cfg_enrichment, "resolved_fsns", <<>>) = <<"FSN3", "FSN4">>
    /\ "products" \in DOMAIN cfg_result
    /\ Len(cfg_result["products"]) = 2

\* an SS-LS result for a bag whose enrichment map says PDC
C28_WitnessDispatch ==
    /\ cfg_pc = "done"
    /\ BagType = <<"SELL", "SIDE">>
    /\ BagSubtype = <<"LS">>
    /\ Get(cfg_enrichment, "scheme_type", <<"">>) = <<"PDC">>
    /\ cfg_result["config_type"] = "SS-LS"

\* the stub and the error returned for calls with an enrichment map
C28_WitnessStub ==
    /\ cfg_pc = "done"
    /\ DOMAIN cfg_enrichment # {}
    /\ "info" \in DOMAIN cfg_result

C28_WitnessError ==
    /\ cfg_pc = "done"
    /\ DOMAIN cfg_enrichment # {}
    /\ "error" \in DOMAIN cfg_result

-----------------------------------------------------------------------------
(* The span a disclaimer pass removes *)

\* the texts text[n:], n a character position of t at a token boundary or
\* behind the full stop inside a token
CharSuffixes(t) ==
    {SubSeq(t, k + 1, Len(t)) : k \in 0..Len(t)}
        \cup {SentenceEndRest[t[k]] \o SubSeq(t, k + 1, Len(t)) :
                  k \in Positions(t, SentenceEndTokens)}

\* a pass of the loop that found a start marker has run
DisclaimerPassStep == pc = "disclaimer" /\ pc' = "disclaimer"

\* the pass took out one span that begins at the start marker; with an end
\* marker behind the start marker the span ends no earlier than the end
\* marker and at most Lookahead characters and one terminator behind it
OneSpanRemoved ==
    DisclaimerPassStep =>
        LET start == first_matching(disclaimer_markers, text, 0)
            e == first_matching(end_markers, text, start)
        IN  /\ start > 0
            /\ CharLen(text') < CharLen(text)
            /\ \E after \in CharSuffixes(text) :
                   /\ text' = SubSeq(text, 1, start - 1) \o after
                   /\ e > 0 =>
                          LET end_pos == CharLen(text) - CharLen(after)
                              marker_end == CharLen(SubSeq(text, 1, e))
                          IN  /\ end_pos >= marker_end
                              /\ end_pos <= marker_end + Lookahead + 1

\* C29: every pass of the disclaimer block removal that finds a start marker
\* makes the text shorter and removes one span: the text before the start
\* marker and the text behind the end position stay as they are, in order,
\* and the end position is at most 200 characters and one sentence
\* terminator behind the end of the matched end marker.
C29_OneSpanRemoved == [][OneSpanRemoved]_vars

\* a pass that ended the span at the full stop inside the address behind the
\* end marker
C29_Witness ==
    /\ input = <<"W", "S4", "E3", "EM">>
    /\ pc = "disclaimer"
    /\ iteration = 1
    /\ text = <<"W", "W">>

\* a pass with no full stop or newline within 200 characters behind the end
\* marker: the span ends with the end marker
C29_WitnessLookahead ==
    /\ input = <<"W", "S4", "NL", "S1", "E3", "E1", "LONG", "DOT", "K">>
    /\ pc = "disclaimer"
    /\ iteration = 1
    /\ text = <<"W", "S4", "NL", "LONG", "DOT", "K">>

-----------------------------------------------------------------------------
(* RetailerHubFieldExtractor.extract_fields *)

(***************************************************************************)
(* The result of the language model is a dict of the attributes it has     *)
(* (an attribute that is missing or None is not a key).  The e-mail text   *)
(* is a sequence of phrases joined by ". ".                                *)
(***************************************************************************)

\* str.strip() on the values the language model returns
Strip(value) ==
    CASE value = " PDC " -> "PDC"
      [] value = " BOC" -> "BOC"
      [] OTHER -> value

\* str.lower() on the phrases of the e-mail text and the vendor names
Lower(s) ==
    CASE s = "Permanent Price Drop" -> "permanent price drop"
      [] s = "NLC reduction" -> "nlc reduction"
      [] s = "Exchange" -> "exchange"
      [] s = "Monsoon Sale" -> "monsoon sale"
      [] s = "Sorry" -> "sorry"
      [] s = "Titan Company" -> "titan company"
      [] s = "Acme" -> "acme"
      [] s = "Unknown Vendor" -> "unknown vendor"
      [] OTHER -> s

\* str.upper() on the values of scheme_type and scheme_subtype
Upper(s) ==
    CASE s = "pdc" -> "PDC"
      [] s = "boc" -> "BOC"
      [] OTHER -> s

\* the entries of the keyword and vendor lists that occur in a lower-case
\* string (`kw in s`)
Occurring(s) ==
    CASE s = "permanent price drop" -> {"price drop", "permanent price drop"}
      [] s = "nlc reduction" -> {"nlc reduction"}
      [] s = "exchange" -> {"exchange"}
      [] s = "buyback" -> {"buyback"}
      [] s = "monsoon sale" -> {"monsoon sale", "monsoon"}
      [] s = "sorry" -> {"sor"}
      [] s = "titan company" -> {"titan"}
      [] OTHER -> {}

pdc_keywords ==
    {"price drop", "permanent price drop", "nlc reduction", "cost reduction",
     "price protection"}

exchange_keywords ==
    {"exchange", "prexo", "upgrade", "buyback", "bup", "prexo bumpup"}

ls_keywords ==
    {"sor", "sor pricing", "sor discounts", "monsoon sale", "monsoon",
     "fashion", "lifestyle", "clothing", "apparel"}

ls_vendors ==
    {"aditya birla", "mgi distribution", "brand concepts", "timex", "titan",
     "metro brands", "sumitsu", "sea turtle", "beewakoof", "highlander",
     "leemboodi"}

\* any(kw in email_text.lower() for kw in kws)
any_keyword(kws, email_text) ==
    \E i \in 1..Len(email_text) : Occurring(Lower(email_text[i])) \cap kws # {}

\* safe_get
safe_get(result, attr_name, default) ==
    IF attr_name \in DOMAIN result THEN Strip(result[attr_name]) ELSE default

\* _extract_all_fields_with_reasoning, lines 298-344: the entries of the
\* bag that the classification reads or writes
extract_all_fields(result) ==
    LET fields == [scheme_type |-> safe_get(result, "scheme_type", "SELL_SIDE"),
                   scheme_subtype |-> safe_get(result, "scheme_subtype", "PUC"),
                   vendor_name |-> safe_get(result, "vendor_name", "Unknown Vendor"),
                   discount_slab_type |->
                       safe_get(result, "discount_slab_type", "Not Applicable"),
                   best_bet |-> safe_get(result, "best_bet", "Not Applicable")]
        typed == IF fields.scheme_subtype = "PDC"
                 THEN [fields EXCEPT !.scheme_type = "PDC"]
                 ELSE fields
        periodic == IF /\ Upper(typed.scheme_type) = "BUY_SIDE"
                       /\ Upper(typed.scheme_subtype) = "PERIODIC_CLAIM"
                    THEN [typed EXCEPT !.discount_slab_type = "notApplicable",
                                       !.best_bet = "FALSE"]
                    ELSE typed
    IN  IF periodic.scheme_subtype = "BOC"
        THEN [periodic EXCEPT !.scheme_subtype = "PUC"]
        ELSE periodic

\* lines 173-176
price_drop_override(all_fields, email_text) ==
    IF any_keyword(pdc_keywords, email_text)
    THEN [all_fields EXCEPT !.scheme_type = "PDC", !.scheme_subtype = "PDC"]
    ELSE all_fields

\* the exchange override without the test for PDC
exchange_override_unguarded(all_fields, email_text) ==
    IF any_keyword(exchange_keywords, email_text)
    THEN [all_fields EXCEPT !.scheme_type = "SELL_SIDE", !.scheme_subtype = "PRX"]
    ELSE all_fields

\* lines 187-191
exchange_override(all_fields, email_text) ==
    IF all_fields.scheme_type # "PDC" /\ any_keyword(exchange_keywords, email_text)
    THEN [all_fields EXCEPT !.scheme_type = "SELL_SIDE", !.scheme_subtype = "PRX"]
    ELSE all_fields

\* lines 202-217
lifestyle_override(all_fields, email_text) ==
    LET vendor_lower == Lower(all_fields.vendor_name)
        is_ls_vendor == Occurring(vendor_lower) \cap ls_vendors # {}
        has_ls_keyword == any_keyword(ls_keywords, email_text)
    IN  IF /\ is_ls_vendor \/ has_ls_keyword
           /\ all_fields.scheme_type \notin {"PDC", "OFC"}
        THEN [all_fields EXCEPT !.scheme_type = "SELL_SIDE", !.scheme_subtype = "LS"]
        ELSE all_fields

\* what the language model returns for scheme_type, scheme_subtype and
\* vendor_name
LlmResults ==
    {t @@ s @@ v :
        t \in Optional("scheme_type",
                       {"PDC", "BUY_SIDE", "SELL_SIDE", "OFC", "ONE_OFF",
                        " PDC ", "pdc"}),
        s \in Optional("scheme_subtype",
                       {"PDC", "BOC", " BOC", "boc", "PERIODIC_CLAIM", "PRX",
                        "LS", "CP"}),
        v \in Optional("vendor_name", {"Titan Company", "Acme"})}

\* the phrases of the e-mail texts
EmailPhrases ==
    {"Permanent Price Drop", "NLC reduction", "Exchange", "buyback",
     "Monsoon Sale", "Sorry", "hello"}

\* longest e-mail text, in phrases
MaxEmailPhrases == 2

\* extract_fields, line 169
ExtractAllFields ==
    /\ ex_pc = "call"
    /\ ex_fields' = extract_all_fields(ex_result)
    /\ ex_pc' = "overrides"
    /\ UNCHANGED <<ex_email, ex_result>>
    /\ UNCHANGED <<cleanVars, clsVars, cfgVars, statsVars, tcVars, twoVars, repVars>>

\* extract_fields, lines 171-235
StrictOverrides ==
    /\ ex_pc = "overrides"
    /\ ex_fields' =
           lifestyle_override(
               exchange_override(
                   price_drop_override(ex_fields, ex_email), ex_email),
               ex_email)
    /\ ex_pc' = "done"
    /\ UNCHANGED <<ex_email, ex_result>>
    /\ UNCHANGED <<cleanVars, clsVars, cfgVars, statsVars, tcVars, twoVars, repVars>>

ExtractInit ==
    /\ ex_pc = "call"
    /\ ex_email \in SeqsUpTo(EmailPhrases, MaxEmailPhrases)
    /\ ex_result \in LlmResults
    /\ ex_fields = EmptyDict
    /\ CleanerAt("idle", <<>>)
    /\ ClassifierIdle
    /\ GeneratorIdle
    /\ StatsIdle
    /\ ContentCleanerIdle
    /\ InstancesIdle
    /\ FirstCall

ExtractNext ==
    \/ ExtractAllFields
    \/ StrictOverrides

ExtractSpec == ExtractInit /\ [][ExtractNext]_vars

\* the e-mail text holds a keyword of the list
EmailHas(kws) ==
    \E i \in 1..Len(ex_email), kw \in kws :
        kw \in Occurring(Lower(ex_email[i]))

\* C30: in the bag extract_fields returns scheme_subtype is never "BOC"
\* (the model's BOC has become PUC unless an override replaced it),
\* scheme_subtype "PDC" comes with scheme_type "PDC" only, an e-mail text
\* with a price-drop keyword gives PDC/PDC whatever else it holds and
\* whoever the vendor is, and without a price-drop keyword a lifestyle
\* keyword beats an exchange keyword.
C30_ClassificationOverrides ==
    ex_pc = "done" =>
        /\ ex_fields.scheme_subtype # "BOC"
        /\ (/\ Get(ex_result, "scheme_subtype", "") \in {"BOC", " BOC"}
            /\ ~EmailHas(pdc_keywords \cup exchange_keywords \cup ls_keywords)
            /\ Get(ex_result, "vendor_name", "") # "Titan Company")
               => ex_fields.scheme_subtype = "PUC"
        /\ ex_fields.scheme_subtype = "PDC" => ex_fields.scheme_type = "PDC"
        /\ EmailHas(pdc_keywords) =>
               /\ ex_fields.scheme_type = "PDC"
               /\ ex_fields.scheme_subtype = "PDC"
        /\ (/\ ~EmailHas(pdc_keywords)
            /\ EmailHas(ls_keywords)
            /\ EmailHas(exchange_keywords)
            /\ ex_fields.scheme_type # "PDC")
               => /\ ex_fields.scheme_type = "SELL_SIDE"
                  /\ ex_fields.scheme_subtype = "LS"

\* PDC/PDC for a lifestyle vendor whose e-mail names an exchange and a
\* price drop, the model having said SELL_SIDE/BOC
C30_Witness ==
    /\ ex_pc = "done"
    /\ ex_email = <<"Exchange", "Permanent Price Drop">>
    /\ ex_result = [scheme_type |-> "SELL_SIDE", scheme_subtype |-> "BOC",
                    vendor_name |-> "Titan Company"]
    /\ ex_fields.scheme_type = "PDC"
    /\ ex_fields.scheme_subtype = "PDC"

\* BOC converted to PUC, no override at work
C30_WitnessBoc ==
    /\ ex_pc = "done"
    /\ ex_email = <<"hello">>
    /\ Get(ex_result, "scheme_subtype", "") = " BOC"
    /\ ex_fields.scheme_subtype = "PUC"

\* lifestyle over exchange
C30_WitnessLifestyle ==
    /\ ex_pc = "done"
    /\ ex_email = <<"Sorry", "buyback">>
    /\ Get(ex_result, "scheme_type", "") = "OFC"
    /\ ex_fields.scheme_type = "SELL_SIDE"
    /\ ex_fields.scheme_subtype = "LS"

=============================================================================
